---- MODULE Spec2Model ----
(***************************************************************************)
(* Verification model of the BPMN data generation pipeline                 *)
(* (python_port/src/api): the ValidationLayer (record normalizer) and the  *)
(* DataGenerationPipeline.run stage sequence.                              *)
(*                                                                         *)
(* Python strings are sequences of one-character strings, so that          *)
(* startswith, slicing, substring search and lower() are computed, not     *)
(* assumed.  A Python value is a record [t |-> type tag, s |-> characters].*)
(* A dict is a function from field names to values; a list is a sequence.  *)
(***************************************************************************)
EXTENDS Integers, Sequences, FiniteSets, TLC

(***************************************************************************)
(* Bounds of the model                                                     *)
(***************************************************************************)
\* longest raw batch handed to one validate call in the normalizer harness
MaxBatch == 2
\* longest reply of the collaborator in one pipeline stage
MaxReply == 2

(***************************************************************************)
(* Python string primitives                                                *)
(***************************************************************************)
UpperChars == <<"A","B","C","D","E","F","G","H","I","J","K","L","M",
                "N","O","P","Q","R","S","T","U","V","W","X","Y","Z">>
LowerChars == <<"a","b","c","d","e","f","g","h","i","j","k","l","m",
                "n","o","p","q","r","s","t","u","v","w","x","y","z">>
Digits == <<"0","1","2","3","4","5","6","7","8","9">>

\* str.lower() on one character
LowerChar(c) ==
  IF \E i \in 1..26 : UpperChars[i] = c
  THEN LowerChars[CHOOSE i \in 1..26 : UpperChars[i] = c]
  ELSE c

\* str.lower()
StrLower(s) == [i \in 1..Len(s) |-> LowerChar(s[i])]

\* str.startswith(p)
StartsWith(s, p) == Len(s) >= Len(p) /\ SubSeq(s, 1, Len(p)) = p

\* the slice s[-3:]
Last3(s) == IF Len(s) <= 3 THEN s ELSE SubSeq(s, Len(s) - 2, Len(s))

\* the test "sub in s"
Contains(s, sub) ==
  \E i \in 0..(Len(s) - Len(sub)) : SubSeq(s, i + 1, i + Len(sub)) = sub

\* the decimal digits of a natural number, as str(n) prints them
RECURSIVE DecStr(_)
DecStr(n) == IF n < 10 THEN <<Digits[n + 1]>>
             ELSE DecStr(n \div 10) \o <<Digits[(n % 10) + 1]>>

\* the format specification :03d
Pad3(n) == IF n < 10 THEN <<"0", "0">> \o DecStr(n)
           ELSE IF n < 100 THEN <<"0">> \o DecStr(n)
           ELSE DecStr(n)

(***************************************************************************)
(* Python values                                                           *)
(***************************************************************************)
StrV(s) == [t |-> "str", s |-> s]
IntV(n) == [t |-> "int", s |-> DecStr(n)]
FloatV(s) == [t |-> "float", s |-> s]
BoolV(b) == [t |-> "bool", s |-> IF b THEN <<"T","r","u","e">> ELSE <<"F","a","l","s","e">>]
NoneV == [t |-> "none", s |-> <<"N","o","n","e">>]

IsStr(v) == v.t = "str"

\* truth value of a Python value ("if v", "not v")
Truthy(v) ==
  CASE v.t = "str" -> v.s # <<>>
    [] v.t = "int" -> v.s # <<"0">>
    [] v.t = "float" -> v.s # <<"0", ".", "0">>
    [] v.t = "bool" -> v.s = <<"T","r","u","e">>
    [] OTHER -> FALSE

\* str(v)
PyStr(v) == StrV(v.s)

\* a list item that is not a dict (a string, a number, a key of a dict reply)
NonDictItem == [nondict_item |-> NoneV]
IsDict(item) == "nondict_item" \notin DOMAIN item

Has(d, f) == f \in DOMAIN d
\* d[f] = v on a dict
SetField(d, f, v) == [x \in (DOMAIN d) \cup {f} |-> IF x = f THEN v ELSE d[x]]
\* "f not in d or not d[f]"
MissingOrFalsy(d, f) == ~Has(d, f) \/ ~Truthy(d[f])

(***************************************************************************)
(* Identifier prefixes                                                     *)
(***************************************************************************)
PROC == <<"P","R","O","C","_">>
FLOW == <<"F","L","O","W","_">>
POOL == <<"P","O","O","L","_">>
LANE == <<"L","A","N","E","_">>
ELEM == <<"E","L","E","M","_">>
START == <<"S","T","A","R","T","_">>
END == <<"E","N","D","_">>
EVEN == <<"E","V","E","N","_">>
TASK == <<"T","A","S","K","_">>
GATE == <<"G","A","T","E","_">>

(***************************************************************************)
(* Schema registry (SchemaLoader) and the phase schema of _get_schema      *)
(***************************************************************************)
NoDefault == NoneV
\* one schema entry: field -> {type, required, default, format}
Fld(name, alts, isList, required, hasDefault, default, format) ==
  [name |-> name, alts |-> alts, isList |-> isList, required |-> required,
   hasDefault |-> hasDefault, default |-> default, format |-> format]
\* an entry with a single type, no default and no format
Plain(name, type, required) ==
  Fld(name, <<type>>, FALSE, required, FALSE, NoDefault, "")

ProcessPhasesSchema ==
  << Plain("phase_id", "string", TRUE),
     Plain("phase_name", "string", TRUE),
     Plain("description", "string", TRUE),
     Plain("order", "integer", FALSE) >>

ProcessDefinitionsSchema ==
  << Plain("process_id", "string", TRUE),
     Plain("process_name", "string", TRUE),
     Plain("description", "string", TRUE),
     Fld("version", <<"string">>, FALSE, FALSE, TRUE, StrV(<<"1", ".", "0">>), ""),
     Fld("author", <<"string", "null">>, TRUE, FALSE, FALSE, NoDefault, ""),
     Fld("creation_date", <<"string", "null">>, TRUE, FALSE, FALSE, NoDefault, "date-time"),
     Fld("last_modified", <<"string", "null">>, TRUE, FALSE, FALSE, NoDefault, "date-time"),
     Fld("status", <<"string", "null">>, TRUE, FALSE, TRUE, StrV(<<"D","r","a","f","t">>), "") >>

BpmnElementsSchema ==
  << Plain("element_id", "string", TRUE),
     Plain("element_name", "string", TRUE),
     Plain("element_type", "string", TRUE),
     Plain("element_subtype", "string", FALSE),
     Plain("process_id", "string", TRUE),
     Plain("parent_id", "string", FALSE),
     Plain("description", "string", FALSE),
     Plain("position_x", "number", FALSE),
     Plain("position_y", "number", FALSE),
     Plain("width", "number", FALSE),
     Plain("height", "number", FALSE) >>

SequenceFlowsSchema ==
  << Plain("flow_id", "string", TRUE),
     Plain("source_ref", "string", TRUE),
     Plain("target_ref", "string", TRUE),
     Plain("process_id", "string", TRUE),
     Plain("condition_expr", "string", FALSE),
     Plain("description", "string", FALSE) >>

ResourcesSchema ==
  << Plain("resource_id", "string", TRUE),
     Plain("resource_name", "string", TRUE),
     Plain("resource_type", "string", TRUE),
     Plain("element_id", "string", TRUE),
     Plain("process_id", "string", TRUE),
     Plain("capability", "string", FALSE),
     Plain("availability", "string", FALSE) >>

PoolsSchema ==
  << Plain("pool_id", "string", TRUE),
     Plain("pool_name", "string", TRUE),
     Plain("process_id", "string", TRUE),
     Plain("description", "string", TRUE),
     Fld("participant_type", <<"string">>, FALSE, FALSE, TRUE,
         StrV(<<"o","r","g","a","n","i","z","a","t","i","o","n">>), "") >>

LanesSchema ==
  << Plain("lane_id", "string", TRUE),
     Plain("lane_name", "string", TRUE),
     Plain("pool_id", "string", TRUE),
     Plain("process_id", "string", TRUE),
     Plain("description", "string", TRUE),
     Plain("role", "string", FALSE),
     Plain("element_refs", "array", FALSE) >>

\* the levels that have a schema
SchemaLevels == {"process_phases", "process_definitions", "bpmn_elements",
                 "sequence_flows", "resources", "pools", "lanes"}

\* ValidationLayer._get_schema; the empty sequence stands for None
GetSchema(level) ==
  CASE level = "process_phases" -> ProcessPhasesSchema
    [] level = "process_definitions" -> ProcessDefinitionsSchema
    [] level = "bpmn_elements" -> BpmnElementsSchema
    [] level = "sequence_flows" -> SequenceFlowsSchema
    [] level = "resources" -> ResourcesSchema
    [] level = "pools" -> PoolsSchema
    [] level = "lanes" -> LanesSchema
    [] OTHER -> <<>>

(***************************************************************************)
(* ValidationLayer._validate_type                                          *)
(***************************************************************************)
\* the fallback timestamp of the date-time format
DefaultDateTime ==
  StrV(<<"2","0","2","5","-","0","4","-","2","6","T","1","2",":","0","0",":","0","0","Z">>)

IsDigits(s) == s # <<>> /\ \A i \in 1..Len(s) : \E k \in 1..10 : Digits[k] = s[i]

\* a digit string without its leading zeros (at least one digit is kept)
RECURSIVE StripZeros(_)
StripZeros(s) == IF Len(s) > 1 /\ s[1] = "0" THEN StripZeros(Tail(s)) ELSE s

\* the characters before the decimal point of a float's repr
RECURSIVE IntPart(_)
IntPart(s) == IF s = <<>> \/ s[1] = "." THEN <<>> ELSE <<s[1]>> \o IntPart(Tail(s))

\* float(value): defined on digit strings; every other value of the model
\* (None, alphabetic strings, the empty string) makes float() raise
FloatParses(v) == v.t = "str" /\ IsDigits(v.s)
FloatOf(v) == FloatV(StripZeros(v.s) \o <<".", "0">>)

\* int(value): digit strings and floats convert, the rest raises
IntParses(v) == (v.t = "str" /\ IsDigits(v.s)) \/ v.t = "float"
IntOf(v) == IF v.t = "float" THEN [t |-> "int", s |-> IntPart(v.s)]
            ELSE [t |-> "int", s |-> StripZeros(v.s)]

\* FormatCheck replacing only a string that has neither 'T' nor ':'
FormatCheck_LacksBoth(value, format) ==
  IF format = "date-time" /\ IsStr(value)
     /\ ~Contains(value.s, <<"T">>) /\ ~Contains(value.s, <<":">>)
  THEN DefaultDateTime
  ELSE value

\* the date-time format check at the end of _validate_type
FormatCheck(value, format) ==
  IF format = "date-time" /\ IsStr(value)
     /\ ~(Contains(value.s, <<"T">>) /\ Contains(value.s, <<":">>))
  THEN DefaultDateTime
  ELSE value

\* _validate_type for a single expected type
ValidateSingleType(value, type, format) ==
  CASE type = "string" /\ ~IsStr(value) -> PyStr(value)
    [] type = "number" /\ value.t \notin {"int", "float", "bool"} ->
         IF FloatParses(value) THEN FloatOf(value) ELSE IntV(0)
    [] type = "integer" /\ value.t \notin {"int", "bool"} ->
         IF IntParses(value) THEN IntOf(value) ELSE IntV(0)
    [] type = "boolean" /\ value.t # "bool" ->
         IF IsStr(value)
         THEN BoolV(StrLower(value.s) \in {<<"t","r","u","e">>, <<"y","e","s">>, <<"1">>})
         ELSE BoolV(Truthy(value))
    [] type = "null" -> NoneV
    [] OTHER -> FormatCheck(value, format)

\* _validate_type for a list of alternatives: the first alternative that is
\* not a skipped 'null' decides (no alternative raises ValueError)
RECURSIVE ValidateAlternatives(_, _, _)
ValidateAlternatives(value, alts, format) ==
  IF alts = <<>> THEN value
  ELSE IF Head(alts) = "null" /\ value.t # "none"
       THEN ValidateAlternatives(value, Tail(alts), format)
       ELSE ValidateSingleType(value, Head(alts), format)

ValidateType(value, fs) ==
  IF fs.isList THEN ValidateAlternatives(value, fs.alts, fs.format)
  ELSE ValidateSingleType(value, fs.alts[1], fs.format)


(***************************************************************************)
(* The context argument of validate.  Only two keys are read:              *)
(* 'process_definitions' (a list of headers, or a single header dict) and  *)
(* 'pool' (a dict).                                                        *)
(***************************************************************************)
EmptyDict == [x \in {} |-> NoneV]
PdAbsent == [kind |-> "absent", items |-> <<>>, rec |-> EmptyDict]
PdList(items) == [kind |-> "list", items |-> items, rec |-> EmptyDict]
PdDict(rec) == [kind |-> "dict", items |-> <<>>, rec |-> rec]
PoolAbsent == [kind |-> "absent", rec |-> EmptyDict]
PoolDict(rec) == [kind |-> "dict", rec |-> rec]
Ctx(pd, pool) == [pd |-> pd, pool |-> pool]
NoContext == Ctx(PdAbsent, PoolAbsent)

\* d.get(f): None when the key is absent
Get(d, f) == IF Has(d, f) THEN d[f] ELSE NoneV

\* process_id taken from a list of headers or from a header dict (elements, flows)
ContextProcessId(ctx) ==
  IF ctx.pd.kind = "list" /\ Len(ctx.pd.items) > 0
  THEN Get(ctx.pd.items[1], "process_id")
  ELSE IF ctx.pd.kind = "dict" /\ Has(ctx.pd.rec, "process_id")
       THEN ctx.pd.rec["process_id"]
       ELSE NoneV

\* process_id taken from a list of headers only (pools, lanes)
ContextProcessIdList(ctx) ==
  IF ctx.pd.kind = "list" /\ Len(ctx.pd.items) > 0
  THEN Get(ctx.pd.items[1], "process_id")
  ELSE NoneV

\* pool_id taken from context['pool']
ContextPoolId(ctx) ==
  IF ctx.pool.kind = "dict" THEN Get(ctx.pool.rec, "pool_id") ELSE NoneV

\* set field f of every dict of the batch that misses it (or holds a falsy value)
FillMissing(data, f, v) ==
  [i \in 1..Len(data) |->
     IF IsDict(data[i]) /\ Truthy(v) /\ MissingOrFalsy(data[i], f)
     THEN SetField(data[i], f, v)
     ELSE data[i]]

\* the context back-fill that opens validate
BackFill(level, data, ctx) ==
  CASE level \in {"sequence_flows", "bpmn_elements"} ->
         FillMissing(data, "process_id", ContextProcessId(ctx))
    [] level = "pools" ->
         FillMissing(data, "process_id", ContextProcessIdList(ctx))
    [] level = "lanes" ->
         FillMissing(FillMissing(data, "pool_id", ContextPoolId(ctx)),
                     "process_id", ContextProcessIdList(ctx))
    [] OTHER -> data

(***************************************************************************)
(* Identifier assignment and repair                                        *)
(***************************************************************************)
\* "f not in d or not d[f] or not isinstance(d[f], str)"
IdUnusable(d, f) == ~Has(d, f) \/ ~Truthy(d[f]) \/ ~IsStr(d[f])

\* the slice s[:3]
First3(s) == IF Len(s) <= 3 THEN s ELSE SubSeq(s, 1, 3)

\* RepairId keeping the first three characters instead of the last three
RepairId_FirstThree(item, i, f, prefix) ==
  IF IdUnusable(item, f)
  THEN SetField(item, f, StrV(prefix \o Pad3(i + 1)))
  ELSE IF ~StartsWith(item[f].s, prefix)
       THEN SetField(item, f, StrV(prefix \o First3(item[f].s)))
       ELSE item

\* the body shared by _ensure_flow_ids, _ensure_pool_ids and _ensure_lane_ids:
\* item at 0-based index i, id field f, prefix
RepairId(item, i, f, prefix) ==
  IF IdUnusable(item, f)
  THEN SetField(item, f, StrV(prefix \o Pad3(i + 1)))
  ELSE IF ~StartsWith(item[f].s, prefix)
       THEN SetField(item, f, StrV(prefix \o Last3(item[f].s)))
       ELSE item

EnsureFlowIds(flows) ==
  [k \in 1..Len(flows) |->
     IF IsDict(flows[k]) THEN RepairId(flows[k], k - 1, "flow_id", FLOW) ELSE flows[k]]

EnsurePoolIds(pools) ==
  [k \in 1..Len(pools) |->
     IF IsDict(pools[k]) THEN RepairId(pools[k], k - 1, "pool_id", POOL) ELSE pools[k]]

EnsureLaneIds(lanes, pool_id) ==
  [k \in 1..Len(lanes) |->
     IF IsDict(lanes[k])
     THEN LET l == RepairId(lanes[k], k - 1, "lane_id", LANE)
          IN IF Truthy(pool_id) /\ MissingOrFalsy(l, "pool_id")
             THEN SetField(l, "pool_id", pool_id)
             ELSE l
     ELSE lanes[k]]

\* element.get(f, '').lower() raises AttributeError on a value that is not a string
LowerRaises(element, f) == Has(element, f) /\ ~IsStr(element[f])
LowerOf(element, f) == IF Has(element, f) THEN StrLower(element[f].s) ELSE <<>>

\* the id prefix chosen from element_type / element_subtype
ElementPrefix(element) ==
  LET element_type == LowerOf(element, "element_type")
      subtype == LowerOf(element, "element_subtype")
  IN CASE element_type = <<"e","v","e","n","t">> ->
            IF Contains(subtype, <<"s","t","a","r","t">>) THEN START
            ELSE IF Contains(subtype, <<"e","n","d">>) THEN END
            ELSE EVEN
       [] element_type = <<"t","a","s","k">> -> TASK
       [] element_type = <<"g","a","t","e","w","a","y">> -> GATE
       [] OTHER -> ELEM

\* AssignElementId numbering from the 0-based index
AssignElementId_ZeroBased(element, i) ==
  IF IdUnusable(element, "element_id")
  THEN SetField(element, "element_id", StrV(ElementPrefix(element) \o Pad3(i)))
  ELSE element

\* the assignment at the end of the loop body of _ensure_element_ids
AssignElementId(element, i) ==
  IF IdUnusable(element, "element_id")
  THEN SetField(element, "element_id", StrV(ElementPrefix(element) \o Pad3(i + 1)))
  ELSE element

\* _ensure_element_ids raises when .lower() is applied to a non-string
EnsureElementIdsRaises(elements) ==
  \E k \in 1..Len(elements) :
     /\ IsDict(elements[k])
     /\ \/ LowerRaises(elements[k], "element_type")
        \/ /\ LowerOf(elements[k], "element_type") = <<"e","v","e","n","t">>
           /\ LowerRaises(elements[k], "element_subtype")

EnsureElementIds(elements) ==
  [k \in 1..Len(elements) |->
     IF IsDict(elements[k]) THEN AssignElementId(elements[k], k - 1) ELSE elements[k]]

\* the dispatch "Ensure all data has required IDs"
EnsureIds(level, data, ctx) ==
  CASE level = "sequence_flows" -> EnsureFlowIds(data)
    [] level = "bpmn_elements" -> EnsureElementIds(data)
    [] level = "pools" -> EnsurePoolIds(data)
    [] level = "lanes" -> EnsureLaneIds(data, ContextPoolId(ctx))
    [] OTHER -> data

(***************************************************************************)
(* ValidationLayer.validate                                                *)
(***************************************************************************)
\* one schema field applied to the copy of an item: st = [item, ok]
ApplyField(st, fs) ==
  IF ~Has(st.item, fs.name)
  THEN IF fs.hasDefault
       THEN [st EXCEPT !.item = SetField(st.item, fs.name, fs.default)]
       ELSE IF fs.required THEN [st EXCEPT !.ok = FALSE] ELSE st
  ELSE [st EXCEPT !.item = SetField(st.item, fs.name, ValidateType(st.item[fs.name], fs))]

RECURSIVE ApplySchema(_, _)
ApplySchema(st, schema) ==
  IF schema = <<>> THEN st
  ELSE ApplySchema(ApplyField(st, Head(schema)), Tail(schema))

\* the process_id correction of process definitions
CorrectProcessId(level, item) ==
  IF level = "process_definitions" /\ Has(item, "process_id")
     /\ ~StartsWith(item["process_id"].s, PROC)
  THEN SetField(item, "process_id", StrV(PROC \o Last3(item["process_id"].s)))
  ELSE item

\* the loop body of validate for one item: [item, ok]
ValidateItem(level, item, schema) ==
  LET st == ApplySchema([item |-> item, ok |-> TRUE], schema)
  IN [item |-> CorrectProcessId(level, st.item), ok |-> st.ok]

RECURSIVE CollectValid(_, _, _)
CollectValid(level, data, schema) ==
  IF data = <<>> THEN <<>>
  ELSE LET rest == CollectValid(level, Tail(data), schema)
       IN IF ~IsDict(Head(data)) THEN rest
          ELSE LET v == ValidateItem(level, Head(data), schema)
               IN IF v.ok THEN <<v.item>> \o rest ELSE rest

\* validate raises exactly when _ensure_element_ids does
ValidateRaises(level, data, ctx) ==
  /\ data # <<>>
  /\ GetSchema(level) # <<>>
  /\ level = "bpmn_elements"
  /\ EnsureElementIdsRaises(BackFill(level, data, ctx))

\* the list validate returns (when it does not raise)
Validate(level, data, ctx) ==
  IF data = <<>> THEN <<>>
  ELSE IF GetSchema(level) = <<>> THEN data
  ELSE CollectValid(level, EnsureIds(level, BackFill(level, data, ctx), ctx),
                    GetSchema(level))


(***************************************************************************)
(* Raw records the collaborator may return                                 *)
(***************************************************************************)
\* marker of a key the raw record does not carry
Absent == [t |-> "absent", s |-> <<>>]
\* the dict holding the keys of r whose value is not the marker
Rec(r) == [f \in {g \in DOMAIN r : r[g].t # "absent"} |-> r[f]]

N001 == <<"0","0","1">>
N002 == <<"0","0","2">>
sX1 == <<"X","1">>
sA001 == <<"A","0","0","1">>
sB001 == <<"B","0","0","1">>
sName == <<"B","e","g","i","n">>
sDesc == <<"d">>
sTask == <<"t","a","s","k">>
sEvent == <<"e","v","e","n","t">>
sEventCap == <<"E","v","e","n","t">>
sGateway == <<"g","a","t","e","w","a","y">>
sSubprocess == <<"s","u","b","p","r","o","c","e","s","s">>
sUserTask == <<"u","s","e","r","T","a","s","k">>
sStartEvent == <<"s","t","a","r","t","E","v","e","n","t">>
sStartEventCap == <<"S","t","a","r","t","E","v","e","n","t">>
sEndEvent == <<"e","n","d","E","v","e","n","t">>
sTimer == <<"t","i","m","e","r">>
sEndOfStart == <<"e","n","d","O","f","S","t","a","r","t">>

ProcId1 == StrV(PROC \o N001)
ProcId9 == StrV(PROC \o <<"0","0","9">>)

Element(id, type, subtype, name, pid) ==
  Rec([element_id |-> id, element_type |-> type, element_subtype |-> subtype,
       element_name |-> name, process_id |-> pid])

\* (type, subtype) pairs of the raw elements
ElementKinds ==
  { <<StrV(sTask), StrV(sUserTask)>>, <<StrV(sEvent), StrV(sStartEvent)>>,
    <<StrV(sEvent), StrV(sEndEvent)>>, <<StrV(sEvent), StrV(sTimer)>>,
    <<StrV(sGateway), Absent>>, <<StrV(sEventCap), StrV(sStartEventCap)>> }

RawElements ==
  { Element(id, k[1], k[2], StrV(sName), Absent) :
      id \in {Absent, StrV(sX1)}, k \in ElementKinds }
  \cup { Element(id, StrV(sTask), Absent, StrV(sName), Absent) :
      id \in {StrV(<<>>), IntV(7), StrV(TASK \o N001), StrV(TASK \o N002)} }
  \cup { Element(Absent, StrV(sTask), Absent, Absent, Absent),
         Element(Absent, Absent, Absent, StrV(sName), Absent),
         Element(Absent, NoneV, Absent, StrV(sName), Absent),
         Element(Absent, StrV(sEvent), IntV(3), StrV(sName), Absent),
         Element(Absent, StrV(sSubprocess), Absent, StrV(sName), Absent),
         Element(Absent, StrV(sEvent), StrV(sEndOfStart), StrV(sName), ProcId9),
         NonDictItem }

Flow(id, src, tgt, pid) ==
  Rec([flow_id |-> id, source_ref |-> src, target_ref |-> tgt, process_id |-> pid])

RawFlows ==
  { Flow(id, StrV(TASK \o N001), StrV(TASK \o N002), ProcId1) :
      id \in {Absent, StrV(<<>>), IntV(7), StrV(sX1), StrV(sA001), StrV(sB001),
              StrV(FLOW \o N001), StrV(FLOW \o N002),
              StrV(<<"f","l","o","w","_","0","0","1">>)} }
  \cup { Flow(StrV(sA001), StrV(TASK \o N001), Absent, ProcId1),
         Flow(StrV(FLOW \o N001), StrV(<<>>), StrV(TASK \o N002), ProcId1),
         Flow(StrV(FLOW \o N001), StrV(TASK \o N001), StrV(sX1), ProcId1),
         Flow(StrV(FLOW \o N001), StrV(TASK \o N001), StrV(TASK \o N002), Absent),
         NonDictItem }

Pool(id, name, pid, desc) ==
  Rec([pool_id |-> id, pool_name |-> name, process_id |-> pid, description |-> desc])

RawPools ==
  { Pool(id, StrV(sName), ProcId1, StrV(sDesc)) :
      id \in {Absent, StrV(<<>>), NoneV, StrV(sX1), StrV(sA001), StrV(sB001),
              StrV(POOL \o N001), StrV(POOL \o N002)} }
  \cup { Pool(StrV(sA001), StrV(sName), Absent, StrV(sDesc)),
         Pool(StrV(sA001), Absent, ProcId1, StrV(sDesc)),
         NonDictItem }

Lane(id, name, poolid, pid, desc) ==
  Rec([lane_id |-> id, lane_name |-> name, pool_id |-> poolid, process_id |-> pid,
       description |-> desc])

RawLanes ==
  { Lane(id, StrV(sName), StrV(POOL \o N001), ProcId1, StrV(sDesc)) :
      id \in {Absent, StrV(<<>>), IntV(0), StrV(sX1), StrV(sA001), StrV(sB001),
              StrV(LANE \o N001), StrV(LANE \o N002)} }
  \cup { Lane(StrV(sA001), StrV(sName), Absent, Absent, StrV(sDesc)),
         Lane(Absent, StrV(sName), StrV(POOL \o N001), ProcId1, Absent),
         NonDictItem }

Header(id, name, desc) ==
  Rec([process_id |-> id, process_name |-> name, description |-> desc])

\* values of a creation_date: a year, a time of day, a date with a bare 'T',
\* a date with time
sYear == <<"2","0","2","4">>
sTimeOnly == <<"1","2",":","0","0">>
sDateT == <<"2","0","2","4","T">>
sDateTime == <<"2","0","2","4","T","1","2",":","0","0">>

\* a header that carries a creation_date
DatedHeader(created) ==
  Rec([process_id |-> ProcId1, process_name |-> StrV(sName),
       description |-> StrV(sDesc), creation_date |-> created])

RawHeaders ==
  { Header(id, StrV(sName), StrV(sDesc)) :
      id \in {Absent, StrV(<<>>), IntV(7), NoneV, StrV(sX1), StrV(sA001), StrV(sB001),
              StrV(PROC \o N001), StrV(PROC \o N002),
              StrV(<<"p","r","o","c","_","0","0","1">>)} }
  \cup { DatedHeader(d) :
           d \in {NoneV, IntV(2024), StrV(<<>>), StrV(sYear), StrV(sTimeOnly),
                  StrV(sDateT), StrV(sDateTime)} }
  \cup { Header(StrV(sA001), Absent, StrV(sDesc)),
         NonDictItem }

Resource(id, name, type, eid, pid) ==
  Rec([resource_id |-> id, resource_name |-> name, resource_type |-> type,
       element_id |-> eid, process_id |-> pid])

RawResources ==
  { Resource(id, StrV(sName), StrV(sDesc), StrV(TASK \o N001), pid) :
      id \in {Absent, StrV(sX1), StrV(<<"R","E","S","_">> \o N001)},
      pid \in {Absent, ProcId1} }
  \cup { NonDictItem }

Phase(id, name, desc) ==
  Rec([phase_id |-> id, phase_name |-> name, description |-> desc])

RawPhases ==
  { Phase(StrV(sX1), StrV(sName), StrV(sDesc)),
    Phase(IntV(1), StrV(sName), StrV(sDesc)),
    Phase(Absent, StrV(sName), StrV(sDesc)),
    NonDictItem }

\* the raw items of a level; a level without schema takes any list
RawItems(level) ==
  CASE level = "process_phases" -> RawPhases
    [] level = "process_definitions" -> RawHeaders
    [] level = "bpmn_elements" -> RawElements
    [] level = "sequence_flows" -> RawFlows
    [] level = "resources" -> RawResources
    [] level = "pools" -> RawPools
    [] level = "lanes" -> RawLanes
    [] OTHER -> {Phase(StrV(sX1), Absent, Absent), NonDictItem}

\* the lists of at most n items of S
Batches(S, n) == UNION { [1..k -> S] : k \in 0..n }

\* a validated header and a validated pool, as the pipeline context holds them
ValidHeader ==
  [process_id |-> ProcId1, process_name |-> StrV(sName), description |-> StrV(sDesc),
   version |-> StrV(<<"1", ".", "0">>), status |-> StrV(<<"D","r","a","f","t">>)]
ValidPool ==
  [pool_id |-> StrV(POOL \o <<"0","0","7">>), pool_name |-> StrV(sName),
   process_id |-> ProcId1, description |-> StrV(sDesc),
   participant_type |-> StrV(<<"o","r","g","a","n","i","z","a","t","i","o","n">>)]

\* the contexts validate is called with
Contexts ==
  { NoContext,
    Ctx(PdList(<<ValidHeader>>), PoolAbsent),
    Ctx(PdDict([process_id |-> ProcId1]), PoolAbsent),
    Ctx(PdList(<<ValidHeader>>), PoolDict(ValidPool)) }

\* the levels validate is called with; 'integrity_issues' has no schema
Levels == SchemaLevels \cup {"integrity_issues"}

(***************************************************************************)
(* State                                                                   *)
(***************************************************************************)
VARIABLES
  nLevel,   \* validate: argument level
  nData,    \* validate: argument data (the raw batch)
  nCtx,     \* validate: argument context
  nOut,     \* validate: the returned list
  nPc,      \* validate: "ready", "done" (returned) or "raised"
  pc,                   \* position of run(): "constructed", a stage, "finalize", "returned", "raised"
  product_description,  \* self.product_description
  batch_sizes,          \* the batch_sizes argument of run()
  context,              \* self.context: key -> validated batch
  timings,              \* keys of self.timings
  success,              \* local success of run()
  data_generated,       \* local data_generated of run()
  batch_num,            \* loop counter of _generate_bpmn_elements_recursive
  all_elements,         \* local all_elements of _generate_bpmn_elements_recursive
  lane_pools,           \* the valid pools whose lanes are still to be generated
  files,                \* names of the documents written by _save_json
  summary,              \* the summary document; NoSummary before it is written
  started,              \* the stages started so far, in order
  raised,               \* the stages that raised an exception
  batch_reply,          \* locals elements / valid_elements of _generate_bpmn_elements_recursive
  gPc,               \* position of generate_from_context: "new", "process", "elements", "flows", "save", "saved"
  gContext,          \* the context argument of generate_from_context
  gCalls,            \* number of generate_from_context calls completed on the instance
  gIdx,              \* number of items the running loop has processed
  gElements,         \* self.elements: element_id -> node
  definitions_node,  \* children of self.definitions_node
  diagram_node,      \* children of self.diagram_node
  process_node,      \* self.process_node
  plane_node,        \* self.plane_node
  lPc,               \* position of call_llm / check_integrity: "new", "send", "reply", "returned", "checked"
  lPrompt,           \* local prompt of call_llm: the original request or a fix-it request
  lRetry,            \* local retry_count of call_llm
  lText,             \* what the latest send_prompt invocation returned, or that it raised
  lRows,             \* the value call_llm returned
  lSent,             \* the prompts send_prompt was invoked with, in order
  lReplies,          \* what each finished send_prompt invocation gave, in order
  lExtracted,        \* the invocations whose reply _extract_json_content was applied to
  lApiRetry,         \* local retry_count of send_prompt
  lHttp,             \* requests.post calls of the running send_prompt invocation
  lIssues,           \* the value check_integrity returned
  clock,             \* datetime.now(), in whole seconds
  option_records,    \* the dict objects used as API options, by identity
  documents,         \* the file system: directory -> file name -> content
  pipelines          \* the DataGenerationPipeline objects of two concurrent runs

lvars == <<lPc, lPrompt, lRetry, lText, lRows, lSent, lReplies, lExtracted, lApiRetry,
           lHttp, lIssues>>
rvars == <<clock, option_records, documents, pipelines>>
nvars == <<nLevel, nData, nCtx, nOut, nPc>>
pvars == <<pc, product_description, batch_sizes, context, timings, success,
           data_generated, batch_num, all_elements, lane_pools, files, summary,
           started, raised, batch_reply>>
gvars == <<gPc, gContext, gCalls, gIdx, gElements, definitions_node, diagram_node,
           process_node, plane_node>>
vars == <<nLevel, nData, nCtx, nOut, nPc, pc, product_description, batch_sizes,
          context, timings, success, data_generated, batch_num, all_elements,
          lane_pools, files, summary, started, raised, batch_reply, gPc, gContext,
          gCalls, gIdx,
          gElements, definitions_node, diagram_node, process_node, plane_node,
          lPc, lPrompt, lRetry, lText, lRows, lSent, lReplies, lExtracted, lApiRetry,
          lHttp, lIssues, clock, option_records, documents, pipelines>>

\* an XML element of the document: tag, attributes, children
XmlNode(tag, attrs, children) == [tag |-> tag, attrs |-> attrs, children |-> children]
\* the value None of a node attribute of the generator
NoNode == XmlNode("None", [x \in {} |-> NoneV], <<>>)

\* the state of a generator that is not used
GeneratorIdle ==
  /\ gPc = "unused"
  /\ gContext = [k \in {} |-> <<>>]
  /\ gCalls = 0
  /\ gIdx = 0
  /\ gElements = [x \in {} |-> NoNode]
  /\ definitions_node = <<>>
  /\ diagram_node = <<>>
  /\ process_node = NoNode
  /\ plane_node = NoNode

\* the request call_llm is called with, and a fix-it request that embeds a text
OriginalPrompt == [fix |-> FALSE, text |-> <<>>]
FixPrompt(text) == [fix |-> TRUE, text |-> text]
\* send_prompt raised / returned a value
Raised == [kind |-> "raised", v |-> NoneV]
Returned(v) == [kind |-> "text", v |-> v]

\* the state when no second pipeline object exists
RunsIdle ==
  /\ clock = 0
  /\ option_records = <<>>
  /\ documents = <<>>
  /\ pipelines = <<>>

\* the state of a collaborator call that is not made
LlmIdle ==
  /\ lPc = "unused"
  /\ lPrompt = OriginalPrompt
  /\ lRetry = 0
  /\ lText = Raised
  /\ lRows = NoneV
  /\ lSent = <<>>
  /\ lReplies = <<>>
  /\ lExtracted = {}
  /\ lApiRetry = 0
  /\ lHttp = 0
  /\ lIssues = NoneV

\* the locals of the element loop outside the loop
NoBatch == [elements |-> <<>>, valid_elements |-> <<>>]

\* no summary document has been written
NoSummary == [written |-> FALSE]

\* self.context = {} ; self.timings = {}
EmptyContext == [k \in {} |-> <<>>]
\* context.get(k, []) for the keys that hold lists
CtxGet(c, k) == IF k \in DOMAIN c THEN c[k] ELSE <<>>

\* the state of a pipeline that has not been constructed with a description
PipelineIdle ==
  /\ pc = "unused"
  /\ product_description = NoneV
  /\ batch_sizes = [elements |-> 0, max_element_batches |-> 0, resources |-> 0]
  /\ context = EmptyContext
  /\ timings = {}
  /\ success = TRUE
  /\ data_generated = FALSE
  /\ batch_num = 0
  /\ all_elements = <<>>
  /\ lane_pools = <<>>
  /\ files = {}
  /\ summary = NoSummary
  /\ started = <<>>
  /\ raised = {}
  /\ batch_reply = NoBatch

(***************************************************************************)
(* One call of ValidationLayer.validate on arbitrary arguments             *)
(***************************************************************************)
NormInit ==
  /\ RunsIdle
  /\ LlmIdle
  /\ PipelineIdle
  /\ GeneratorIdle
  /\ nLevel \in Levels
  /\ nData \in Batches(RawItems(nLevel), MaxBatch)
  /\ nCtx \in Contexts
  /\ nOut = <<>>
  /\ nPc = "ready"

ValidateReturns ==
  /\ nPc = "ready"
  /\ ~ValidateRaises(nLevel, nData, nCtx)
  /\ nOut' = Validate(nLevel, nData, nCtx)
  /\ nPc' = "done"
  /\ UNCHANGED <<nLevel, nData, nCtx>>
  /\ UNCHANGED pvars
  /\ UNCHANGED gvars
  /\ UNCHANGED lvars
  /\ UNCHANGED rvars

ValidateThrows ==
  /\ nPc = "ready"
  /\ ValidateRaises(nLevel, nData, nCtx)
  /\ nPc' = "raised"
  /\ UNCHANGED <<nLevel, nData, nCtx, nOut>>
  /\ UNCHANGED pvars
  /\ UNCHANGED gvars
  /\ UNCHANGED lvars
  /\ UNCHANGED rvars

\* validate called a second time, on the list the first call returned
ValidateAgain ==
  /\ nPc = "done"
  /\ nData' = nOut
  /\ IF ValidateRaises(nLevel, nOut, nCtx)
     THEN nPc' = "raised" /\ nOut' = nOut
     ELSE nPc' = "again" /\ nOut' = Validate(nLevel, nOut, nCtx)
  /\ UNCHANGED <<nLevel, nCtx>>
  /\ UNCHANGED pvars
  /\ UNCHANGED gvars
  /\ UNCHANGED lvars
  /\ UNCHANGED rvars

NormNext == ValidateReturns \/ ValidateThrows \/ ValidateAgain

NormSpec == NormInit /\ [][NormNext]_vars


(***************************************************************************)
(* DataGenerationPipeline: inputs of one run                               *)
(***************************************************************************)
\* largest 'max_element_batches' of a run
MaxElementBatches == 2

\* the batch_sizes argument (the keys the stage gates and the element loop read)
BatchSizeChoices ==
  [elements : {1, 2}, max_element_batches : 1..MaxElementBatches, resources : {0, 1}]

\* what DataGenerator.call_llm returns to each stage (a list; call_llm never raises)
PhaseReplies == Batches({Phase(StrV(sX1), StrV(sName), StrV(sDesc)), NonDictItem}, 1)
HeaderReplies == Batches({Header(StrV(sA001), StrV(sName), StrV(sDesc)), NonDictItem}, 1)
ElementReplies ==
  Batches({Element(Absent, StrV(sTask), Absent, StrV(sName), Absent),
           Element(Absent, StrV(sTask), Absent, Absent, Absent)}, MaxReply)
PoolReplies ==
  Batches({Pool(Absent, StrV(sName), Absent, StrV(sDesc)), NonDictItem}, 2)
LaneReplies == Batches({Lane(Absent, StrV(sName), Absent, Absent, StrV(sDesc))}, 1)
FlowReplies ==
  Batches({Flow(Absent, StrV(TASK \o N001), StrV(TASK \o N002), Absent),
           Flow(StrV(sA001), StrV(TASK \o N001), Absent, Absent)}, 2)
ResourceReplies ==
  Batches({Resource(StrV(sX1), StrV(sName), StrV(sDesc), StrV(TASK \o N001), ProcId1),
           Resource(StrV(sX1), StrV(sName), StrV(sDesc), StrV(TASK \o N001), ProcId9),
           NonDictItem}, 1)
IntegrityReplies ==
  { <<>>, <<[problem_type |-> StrV(sX1), description |-> StrV(sDesc)]>> }
\* the specifications reply of _add_product_specifications: unusable, or a dict
\* with a product_name
SpecsReplies == { <<>>, <<[product_name |-> StrV(sName)]>> }

(***************************************************************************)
(* DataGenerationPipeline.run                                              *)
(***************************************************************************)
Stages == <<"phases", "process_definitions", "elements", "pools", "flows",
            "resources", "integrity">>

\* the position that follows a stage in run()
NextPc(stage) ==
  CASE stage = "phases" -> "process_definitions"
    [] stage = "process_definitions" -> "elements"
    [] stage = "elements" -> "pools"
    [] stage = "pools" -> "flows"
    [] stage = "flows" -> "resources"
    [] stage = "resources" -> "integrity"
    [] OTHER -> "finalize"

\* the stage a position belongs to (the lane loop is part of pools and lanes)
StageOf(p) == IF p = "lanes" THEN "pools" ELSE p

\* Gate with a flows step guarded by the success flag alone
Gate_FlowsUngated(stage) ==
  CASE stage = "phases" -> TRUE
    [] stage \in {"process_definitions", "elements"} -> success /\ data_generated
    [] stage = "pools" ->
         success /\ data_generated /\ CtxGet(context, "bpmn_elements") # <<>>
    [] stage = "flows" -> success
    [] stage = "resources" ->
         /\ success /\ data_generated /\ CtxGet(context, "bpmn_elements") # <<>>
         /\ batch_sizes.resources > 0
    [] OTHER ->
         /\ success /\ data_generated /\ CtxGet(context, "bpmn_elements") # <<>>
         /\ CtxGet(context, "sequence_flows") # <<>>

\* Gate with a resources step guarded by elements and the requested count only
Gate_ResourcesIndependent(stage) ==
  CASE stage = "phases" -> TRUE
    [] stage \in {"process_definitions", "elements"} -> success /\ data_generated
    [] stage \in {"pools", "flows"} ->
         success /\ data_generated /\ CtxGet(context, "bpmn_elements") # <<>>
    [] stage = "resources" ->
         CtxGet(context, "bpmn_elements") # <<>> /\ batch_sizes.resources > 0
    [] OTHER ->
         /\ success /\ data_generated /\ CtxGet(context, "bpmn_elements") # <<>>
         /\ CtxGet(context, "sequence_flows") # <<>>

\* the condition that guards each step of run()
Gate(stage) ==
  CASE stage = "phases" -> TRUE
    [] stage \in {"process_definitions", "elements"} -> success /\ data_generated
    [] stage \in {"pools", "flows"} ->
         success /\ data_generated /\ CtxGet(context, "bpmn_elements") # <<>>
    [] stage = "resources" ->
         /\ success /\ data_generated /\ CtxGet(context, "bpmn_elements") # <<>>
         /\ batch_sizes.resources > 0
    [] OTHER ->
         /\ success /\ data_generated /\ CtxGet(context, "bpmn_elements") # <<>>
         /\ CtxGet(context, "sequence_flows") # <<>>

\* Handler with a pools-and-lanes except clause that clears the success flag
Handler_PoolsHard(stage, s, d) ==
  CASE stage = "phases" -> <<FALSE, d>>
    [] stage \in {"process_definitions", "elements", "flows"} -> <<FALSE, FALSE>>
    [] stage = "pools" -> <<FALSE, d>>
    [] OTHER -> <<s, d>>

\* Handler with a flows except clause that leaves both flags alone
Handler_FlowsSoft(stage, s, d) ==
  CASE stage = "phases" -> <<FALSE, d>>
    [] stage \in {"process_definitions", "elements"} -> <<FALSE, FALSE>>
    [] OTHER -> <<s, d>>

\* the except clause of each step: the flags <<success, data_generated>> it leaves
Handler(stage, s, d) ==
  CASE stage = "phases" -> <<FALSE, d>>
    [] stage \in {"process_definitions", "elements", "flows"} -> <<FALSE, FALSE>>
    [] OTHER -> <<s, d>>

\* AfterRaise with an integrity audit whose exception leaves run()
AfterRaise_IntegrityPropagates(stage) ==
  IF stage = "integrity" THEN "raised" ELSE NextPc(stage)

\* where run() continues after the except clause of a step
AfterRaise(stage) == NextPc(stage)

\* the context validate receives from the pipeline
CtxOfContext(c) ==
  Ctx(IF "process_definitions" \in DOMAIN c THEN PdList(c["process_definitions"])
      ELSE PdAbsent, PoolAbsent)
CtxWithPool(c, pool) ==
  Ctx(IF "process_definitions" \in DOMAIN c THEN PdList(c["process_definitions"])
      ELSE PdAbsent, PoolDict(pool))

\* __init__ : the description is a non-empty string, an empty string or None
Init ==
  /\ RunsIdle
  /\ LlmIdle
  /\ nLevel = "none" /\ nData = <<>> /\ nCtx = NoContext /\ nOut = <<>> /\ nPc = "unused"
  /\ GeneratorIdle
  /\ pc = "constructed"
  /\ product_description \in {NoneV, StrV(<<>>), StrV(sDesc)}
  /\ batch_sizes = [elements |-> 0, max_element_batches |-> 0, resources |-> 0]
  /\ context = EmptyContext
  /\ timings = {}
  /\ success = TRUE
  /\ data_generated = FALSE
  /\ batch_num = 0
  /\ all_elements = <<>>
  /\ lane_pools = <<>>
  /\ files = {}
  /\ summary = NoSummary
  /\ started = <<>>
  /\ raised = {}
  /\ batch_reply = NoBatch

\* run(): the description check raises ValueError before the try block
RunRejected ==
  /\ pc = "constructed"
  /\ ~Truthy(product_description)
  /\ pc' = "raised"
  /\ UNCHANGED <<product_description, batch_sizes, context, timings, success,
                 data_generated, batch_num, all_elements, lane_pools, files,
                 summary, started, raised>>
  /\ UNCHANGED nvars
  /\ UNCHANGED gvars
  /\ UNCHANGED lvars
  /\ UNCHANGED rvars
  /\ UNCHANGED batch_reply

\* run(): entry into the try block
RunStart ==
  /\ pc = "constructed"
  /\ Truthy(product_description)
  /\ batch_sizes' \in BatchSizeChoices
  /\ success' = TRUE
  /\ data_generated' = FALSE
  /\ pc' = "phases"
  /\ UNCHANGED <<product_description, context, timings, batch_num, all_elements,
                 lane_pools, files, summary, started, raised>>
  /\ UNCHANGED nvars
  /\ UNCHANGED gvars
  /\ UNCHANGED lvars
  /\ UNCHANGED rvars
  /\ UNCHANGED batch_reply

\* a step whose guard is false is passed over
SkipStage ==
  /\ pc \in {"process_definitions", "elements", "pools", "flows", "resources", "integrity"}
  /\ (pc = "elements" => batch_num = 0)
  /\ ~Gate(pc)
  /\ pc' = NextPc(pc)
  /\ UNCHANGED <<product_description, batch_sizes, context, timings, success,
                 data_generated, batch_num, all_elements, lane_pools, files,
                 summary, started, raised>>
  /\ UNCHANGED nvars
  /\ UNCHANGED gvars
  /\ UNCHANGED lvars
  /\ UNCHANGED rvars
  /\ UNCHANGED batch_reply

\* "if k not in self.context: self.context[k] = []"
EnsureKey(c, k) == IF k \in DOMAIN c THEN c ELSE SetField(c, k, <<>>)

\* the keys a stage initializes before its first call of the collaborator
InitKeys(p, c) ==
  CASE p = "elements" -> EnsureKey(c, "bpmn_elements")
    [] p = "pools" -> EnsureKey(EnsureKey(c, "pools"), "lanes")
    [] OTHER -> c

\* a stage raises (PromptBuilder, validate or json raise inside the stage): the
\* except clause of the step runs; what the stage stored before stays stored
StageRaises ==
  /\ pc \in {"phases", "process_definitions", "elements", "pools", "lanes", "flows",
             "resources", "integrity"}
  /\ (pc \notin {"lanes"} /\ ~(pc = "elements" /\ batch_num > 0)) => Gate(pc)
  /\ started' = IF pc = "lanes" \/ (pc = "elements" /\ batch_num > 0)
                THEN started ELSE Append(started, pc)
  /\ raised' = raised \cup {StageOf(pc)}
  /\ success' = Handler(StageOf(pc), success, data_generated)[1]
  /\ data_generated' = Handler(StageOf(pc), success, data_generated)[2]
  /\ pc' = AfterRaise(StageOf(pc))
  /\ context' = InitKeys(pc, context)
  /\ UNCHANGED <<product_description, batch_sizes, timings, batch_num,
                 all_elements, lane_pools, files, summary>>
  /\ UNCHANGED nvars
  /\ UNCHANGED gvars
  /\ UNCHANGED lvars
  /\ UNCHANGED rvars
  /\ batch_reply' = IF pc = "elements" THEN NoBatch ELSE batch_reply

\* Step 1: _generate_phases
GeneratePhases ==
  /\ pc = "phases"
  /\ \E phases \in PhaseReplies :
       /\ context' = IF phases # <<>>
                     THEN SetField(context, "process_phases",
                                   Validate("process_phases", phases, NoContext))
                     ELSE context
       /\ data_generated' = (CtxGet(context', "process_phases") # <<>>)
  /\ files' = files \cup {"raw_phases.json"}
  /\ timings' = timings \cup {"phases"}
  /\ started' = Append(started, "phases")
  /\ pc' = "process_definitions"
  /\ UNCHANGED <<product_description, batch_sizes, success, batch_num, all_elements,
                 lane_pools, summary, raised>>
  /\ UNCHANGED nvars
  /\ UNCHANGED gvars
  /\ UNCHANGED lvars
  /\ UNCHANGED rvars
  /\ UNCHANGED batch_reply

\* Step 2: _generate_process_definitions
GenerateProcessDefinitions ==
  /\ pc = "process_definitions"
  /\ Gate("process_definitions")
  /\ \E process_defs \in HeaderReplies :
       context' = SetField(context, "process_definitions",
                           Validate("process_definitions", process_defs, NoContext))
  /\ data_generated' = IF CtxGet(context', "process_definitions") = <<>>
                       THEN FALSE ELSE data_generated
  /\ files' = files \cup {"raw_process_definitions.json"}
  /\ timings' = timings \cup {"process_definitions"}
  /\ started' = Append(started, "process_definitions")
  /\ pc' = "elements"
  /\ UNCHANGED <<product_description, batch_sizes, success, batch_num, all_elements,
                 lane_pools, summary, raised>>
  /\ UNCHANGED nvars
  /\ UNCHANGED gvars
  /\ UNCHANGED lvars
  /\ UNCHANGED rvars
  /\ UNCHANGED batch_reply

\* Extend that keeps only the new items
Extend_Replace(list, items) == items

\* list.extend(items)
Extend(list, items) == list \o items

\* EnoughElements that looks at the running total only
EnoughElements_TotalOnly(all, valid_elements, batch_size, max_batches) ==
  Len(all) >= batch_size * max_batches

\* the test that ends the element loop after a batch was added
EnoughElements(all, valid_elements, batch_size, max_batches) ==
  \/ Len(all) >= batch_size * max_batches
  \/ Len(valid_elements) < batch_size

\* Step 3: one iteration of the loop of _generate_bpmn_elements_recursive (the
\* first iteration includes the guard of the step); the iteration that leaves
\* the loop also returns to run(), which clears data_generated on an empty result
GenerateElementBatch ==
  /\ pc = "elements"
  /\ batch_num = 0 => Gate("elements")
  /\ batch_num < batch_sizes.max_element_batches
  /\ \E elements \in ElementReplies :
       LET c0 == InitKeys("elements", context)
           valid_elements ==
             Validate("bpmn_elements", elements,
                      Ctx(PdList(c0["process_definitions"]), PoolAbsent))
           grown == Extend(all_elements, valid_elements)
           stop == \/ EnoughElements(grown, valid_elements, batch_sizes.elements,
                                      batch_sizes.max_element_batches)
                   \/ batch_num + 1 = batch_sizes.max_element_batches
           raw == "raw_bpmn_elements_batch.json"
       IN /\ ~ValidateRaises("bpmn_elements", elements,
                             Ctx(PdList(c0["process_definitions"]), PoolAbsent))
          /\ IF elements = <<>> \/ valid_elements = <<>>
             THEN /\ context' = c0
                  /\ all_elements' = all_elements
                  /\ batch_reply' = NoBatch
                  /\ files' = files \cup {raw}
                  /\ timings' = timings \cup {"bpmn_elements"}
                  /\ data_generated' = IF all_elements = <<>> THEN FALSE ELSE data_generated
                  /\ batch_num' = batch_num + 1
                  /\ pc' = "pools"
             ELSE /\ context' = SetField(SetField(c0, "bpmn_elements", grown),
                                         "allElementRows", grown)
                  /\ all_elements' = grown
                  /\ files' = files \cup {raw, "bpmn_elements.json"}
                  /\ batch_num' = batch_num + 1
                  /\ IF stop
                     THEN /\ timings' = timings \cup {"bpmn_elements"}
                          /\ batch_reply' = NoBatch
                          /\ pc' = "pools"
                     ELSE /\ timings' = timings
                          /\ batch_reply' = [elements |-> elements,
                                             valid_elements |-> valid_elements]
                          /\ pc' = "elements"
                  /\ data_generated' = data_generated
  /\ started' = IF batch_num = 0 THEN Append(started, "elements") ELSE started
  /\ UNCHANGED <<product_description, batch_sizes, success, lane_pools, summary, raised>>
  /\ UNCHANGED nvars
  /\ UNCHANGED gvars
  /\ UNCHANGED lvars
  /\ UNCHANGED rvars

\* Step 4: _generate_pools_and_lanes up to the lane loop
GeneratePools ==
  /\ pc = "pools"
  /\ Gate("pools")
  /\ \E pools \in PoolReplies :
       LET c0 == InitKeys("pools", context)
           valid_pools == Validate("pools", pools, CtxOfContext(c0))
       IN IF pools = <<>>
          THEN /\ context' = c0
               /\ lane_pools' = <<>>
               /\ files' = files \cup {"raw_pools.json"}
               /\ timings' = timings \cup {"pools_and_lanes"}
               /\ pc' = "flows"
          ELSE /\ context' = SetField(c0, "pools", Extend(c0["pools"], valid_pools))
               /\ lane_pools' = valid_pools
               /\ IF valid_pools = <<>>
                  THEN /\ files' = files \cup {"raw_pools.json", "pools.json", "lanes.json"}
                       /\ timings' = timings \cup {"pools_and_lanes"}
                       /\ pc' = "flows"
                  ELSE /\ files' = files \cup {"raw_pools.json", "pools.json"}
                       /\ timings' = timings
                       /\ pc' = "lanes"
  /\ started' = Append(started, "pools")
  /\ UNCHANGED <<product_description, batch_sizes, success, data_generated, batch_num,
                 all_elements, summary, raised>>
  /\ UNCHANGED nvars
  /\ UNCHANGED gvars
  /\ UNCHANGED lvars
  /\ UNCHANGED rvars
  /\ UNCHANGED batch_reply

\* Step 4, lane loop: the lanes of the next valid pool
GenerateLanes ==
  /\ pc = "lanes"
  /\ lane_pools # <<>>
  /\ \E lanes \in LaneReplies :
       LET pool == Head(lane_pools)
           valid_lanes == Validate("lanes", lanes, CtxWithPool(context, pool))
       IN context' = IF lanes # <<>>
                     THEN SetField(context, "lanes", Extend(context["lanes"], valid_lanes))
                     ELSE context
  /\ lane_pools' = Tail(lane_pools)
  /\ IF Tail(lane_pools) = <<>>
     THEN /\ files' = files \cup {"raw_lanes_pool.json", "lanes.json"}
          /\ timings' = timings \cup {"pools_and_lanes"}
          /\ pc' = "flows"
     ELSE /\ files' = files \cup {"raw_lanes_pool.json"}
          /\ timings' = timings
          /\ pc' = "lanes"
  /\ UNCHANGED <<product_description, batch_sizes, success, data_generated, batch_num,
                 all_elements, summary, started, raised>>
  /\ UNCHANGED nvars
  /\ UNCHANGED gvars
  /\ UNCHANGED lvars
  /\ UNCHANGED rvars
  /\ UNCHANGED batch_reply

\* Step 5: _generate_sequence_flows
GenerateSequenceFlows ==
  /\ pc = "flows"
  /\ Gate("flows")
  /\ \E flows \in FlowReplies :
       LET valid_flows == Validate("sequence_flows", flows, CtxOfContext(context))
       IN context' = SetField(SetField(context, "sequence_flows", valid_flows),
                              "allFlowRows", valid_flows)
  /\ data_generated' = IF CtxGet(context', "sequence_flows") = <<>>
                       THEN FALSE ELSE data_generated
  /\ files' = files \cup {"raw_sequence_flows.json"}
  /\ timings' = timings \cup {"sequence_flows"}
  /\ started' = Append(started, "flows")
  /\ pc' = "resources"
  /\ UNCHANGED <<product_description, batch_sizes, success, batch_num, all_elements,
                 lane_pools, summary, raised>>
  /\ UNCHANGED nvars
  /\ UNCHANGED gvars
  /\ UNCHANGED lvars
  /\ UNCHANGED rvars
  /\ UNCHANGED batch_reply

\* Step 6: _generate_resources
GenerateResources ==
  /\ pc = "resources"
  /\ Gate("resources")
  /\ \E resources \in ResourceReplies :
       context' = SetField(context, "resources",
                           Validate("resources", resources, CtxOfContext(context)))
  /\ files' = files \cup {"raw_resources.json"}
  /\ timings' = timings \cup {"resources"}
  /\ started' = Append(started, "resources")
  /\ pc' = "integrity"
  /\ UNCHANGED <<product_description, batch_sizes, success, data_generated, batch_num,
                 all_elements, lane_pools, summary, raised>>
  /\ UNCHANGED nvars
  /\ UNCHANGED gvars
  /\ UNCHANGED lvars
  /\ UNCHANGED rvars
  /\ UNCHANGED batch_reply

\* Step 7: _validate_integrity (check_integrity hands the reply through)
ValidateIntegrity ==
  /\ pc = "integrity"
  /\ Gate("integrity")
  /\ \E issues \in IntegrityReplies :
       context' = SetField(context, "integrity_issues", issues)
  /\ files' = files \cup {"integrity_issues.json"}
  /\ timings' = timings \cup {"integrity_validation"}
  /\ started' = Append(started, "integrity")
  /\ pc' = "finalize"
  /\ UNCHANGED <<product_description, batch_sizes, success, data_generated, batch_num,
                 all_elements, lane_pools, summary, raised>>
  /\ UNCHANGED nvars
  /\ UNCHANGED gvars
  /\ UNCHANGED lvars
  /\ UNCHANGED rvars
  /\ UNCHANGED batch_reply

\* Summary with a success flag that ignores data_generated
Summary_SuccessOnly(c, s, d) ==
  [success |-> s,
   phases_count |-> Len(CtxGet(c, "process_phases")),
   processes_count |-> Len(CtxGet(c, "process_definitions")),
   elements_count |-> Len(CtxGet(c, "bpmn_elements")),
   flows_count |-> Len(CtxGet(c, "sequence_flows")),
   resources_count |-> Len(CtxGet(c, "resources")),
   pools_count |-> Len(CtxGet(c, "pools")),
   lanes_count |-> Len(CtxGet(c, "lanes"))]

\* the summary document built in the finally block
Summary(c, s, d) ==
  [success |-> s /\ d,
   phases_count |-> Len(CtxGet(c, "process_phases")),
   processes_count |-> Len(CtxGet(c, "process_definitions")),
   elements_count |-> Len(CtxGet(c, "bpmn_elements")),
   flows_count |-> Len(CtxGet(c, "sequence_flows")),
   resources_count |-> Len(CtxGet(c, "resources")),
   pools_count |-> Len(CtxGet(c, "pools")),
   lanes_count |-> Len(CtxGet(c, "lanes"))]

\* the documents the finally block writes
FinalDocuments ==
  {"complete_context.json", "performance_metrics.json", "generation_summary.json"}

\* the finally block of run(): save context and timings, add the product
\* specifications, save the summary, return self.context
Finalize ==
  /\ pc = "finalize"
  /\ timings' = timings \cup {"total"}
  /\ \E specs \in SpecsReplies :
       IF specs # <<>>
       THEN /\ context' = SetField(context, "product_specifications", specs[1])
            /\ files' = files \cup FinalDocuments \cup {"product_specifications.json"}
       ELSE /\ context' = context
            /\ files' = files \cup FinalDocuments
  /\ summary' = Summary(context', success, data_generated)
  /\ pc' = "returned"
  /\ UNCHANGED <<product_description, batch_sizes, success, data_generated, batch_num,
                 all_elements, lane_pools, started, raised>>
  /\ UNCHANGED nvars
  /\ UNCHANGED gvars
  /\ UNCHANGED lvars
  /\ UNCHANGED rvars
  /\ UNCHANGED batch_reply

Next ==
  \/ RunRejected
  \/ RunStart
  \/ SkipStage
  \/ StageRaises
  \/ GeneratePhases
  \/ GenerateProcessDefinitions
  \/ GenerateElementBatch
  \/ GeneratePools
  \/ GenerateLanes
  \/ GenerateSequenceFlows
  \/ GenerateResources
  \/ ValidateIntegrity
  \/ Finalize

Spec == Init /\ [][Next]_vars

(***************************************************************************)
(* BPMNGenerator (bridges/bpmn_generator.py): node constructors            *)
(***************************************************************************)
\* d.get(f, "")
GetOrEmpty(d, f) == IF Has(d, f) THEN d[f] ELSE StrV(<<>>)

\* "if name: node.setAttribute('name', name)" on the attributes of a new node
WithName(attrs, name) == IF Truthy(name) THEN SetField(attrs, "name", name) ELSE attrs

\* node.appendChild(child)
AppendChild(node, child) == [node EXCEPT !.children = Append(@, child)]

CreateStartEvent(element_id, name) ==
  XmlNode("startEvent", WithName([id |-> element_id], name), <<>>)

CreateEndEvent(element_id, name) ==
  XmlNode("endEvent", WithName([id |-> element_id], name), <<>>)

\* the event definition child chosen by the keyword in the subtype
EventDefinitions(element_id, subtype) ==
  IF Contains(subtype.s, <<"M","e","s","s","a","g","e">>)
  THEN <<XmlNode("messageEventDefinition",
                 [id |-> StrV(<<"M","e","s","s","a","g","e","E","v","e","n","t","D","e","f","i","n","i","t","i","o","n","_">> \o element_id.s)], <<>>)>>
  ELSE IF Contains(subtype.s, <<"T","i","m","e","r">>)
  THEN <<XmlNode("timerEventDefinition",
                 [id |-> StrV(<<"T","i","m","e","r","E","v","e","n","t","D","e","f","i","n","i","t","i","o","n","_">> \o element_id.s)], <<>>)>>
  ELSE IF Contains(subtype.s, <<"E","r","r","o","r">>)
  THEN <<XmlNode("errorEventDefinition",
                 [id |-> StrV(<<"E","r","r","o","r","E","v","e","n","t","D","e","f","i","n","i","t","i","o","n","_">> \o element_id.s)], <<>>)>>
  ELSE <<>>

CreateIntermediateEvent(element_id, name, subtype) ==
  XmlNode(IF Contains(subtype.s, <<"C","a","t","c","h">>) THEN "intermediateCatchEvent"
          ELSE "intermediateThrowEvent",
          WithName([id |-> element_id], name),
          EventDefinitions(element_id, subtype))

\* the task_type chosen by _create_task
TaskType(subtype) ==
  CASE subtype.s \in {<<"u","s","e","r","T","a","s","k">>, <<"u","s","e","r">>} -> "userTask"
    [] subtype.s \in {<<"s","e","r","v","i","c","e","T","a","s","k">>, <<"s","e","r","v","i","c","e">>} -> "serviceTask"
    [] subtype.s \in {<<"s","c","r","i","p","t","T","a","s","k">>, <<"s","c","r","i","p","t">>} -> "scriptTask"
    [] subtype.s \in {<<"b","u","s","i","n","e","s","s","R","u","l","e","T","a","s","k">>,
                      <<"b","u","s","i","n","e","s","s","-","r","u","l","e">>} -> "businessRuleTask"
    [] subtype.s \in {<<"m","a","n","u","a","l","T","a","s","k">>, <<"m","a","n","u","a","l">>} -> "manualTask"
    [] subtype.s \in {<<"r","e","c","e","i","v","e","T","a","s","k">>, <<"r","e","c","e","i","v","e">>} -> "receiveTask"
    [] subtype.s \in {<<"s","e","n","d","T","a","s","k">>, <<"s","e","n","d">>} -> "sendTask"
    [] OTHER -> "task"

CreateTask(element_id, name, subtype) ==
  XmlNode(TaskType(subtype), WithName([id |-> element_id], name), <<>>)

\* the gateway_type chosen by _create_gateway
GatewayType(subtype) ==
  CASE subtype.s \in {<<"p","a","r","a","l","l","e","l","G","a","t","e","w","a","y">>, <<"p","a","r","a","l","l","e","l">>} -> "parallelGateway"
    [] subtype.s \in {<<"i","n","c","l","u","s","i","v","e","G","a","t","e","w","a","y">>, <<"i","n","c","l","u","s","i","v","e">>} -> "inclusiveGateway"
    [] subtype.s \in {<<"e","v","e","n","t","B","a","s","e","d","G","a","t","e","w","a","y">>,
                      <<"e","v","e","n","t","-","b","a","s","e","d">>} -> "eventBasedGateway"
    [] subtype.s \in {<<"c","o","m","p","l","e","x","G","a","t","e","w","a","y">>, <<"c","o","m","p","l","e","x">>} -> "complexGateway"
    [] OTHER -> "exclusiveGateway"

CreateGateway(element_id, name, subtype) ==
  XmlNode(GatewayType(subtype), WithName([id |-> element_id], name), <<>>)

\* the bpmn_node _create_elements builds for an element; NoNode stands for None
ElementNode(element) ==
  LET element_id == element["element_id"]
      element_name == GetOrEmpty(element, "element_name")
      element_type == GetOrEmpty(element, "element_type")
      element_subtype == GetOrEmpty(element, "element_subtype")
  IN CASE element_type.s = <<"e","v","e","n","t">> ->
            IF element_subtype.s = <<"s","t","a","r","t","E","v","e","n","t">>
            THEN CreateStartEvent(element_id, element_name)
            ELSE IF element_subtype.s = <<"e","n","d","E","v","e","n","t">>
            THEN CreateEndEvent(element_id, element_name)
            ELSE CreateIntermediateEvent(element_id, element_name, element_subtype)
       [] element_type.s = <<"t","a","s","k">> -> CreateTask(element_id, element_name, element_subtype)
       [] element_type.s = <<"g","a","t","e","w","a","y">> ->
            CreateGateway(element_id, element_name, element_subtype)
       [] OTHER -> NoNode

\* _create_shape: the shape with its bounds
CreateShape(element_id, x, y, width, height) ==
  XmlNode("bpmndi:BPMNShape",
          [id |-> StrV(<<"B","P","M","N","S","h","a","p","e","_">> \o element_id.s), bpmnElement |-> element_id],
          <<XmlNode("dc:Bounds",
                    [x |-> PyStr(x), y |-> PyStr(y), width |-> PyStr(width),
                     height |-> PyStr(height)], <<>>)>>)

\* the shape of an element, positioned on the grid from the size n of self.elements
ShapeOf(element, n) ==
  CreateShape(element["element_id"],
              IF Has(element, "position_x") THEN element["position_x"]
              ELSE IntV((n * 150) % 800),
              IF Has(element, "position_y") THEN element["position_y"]
              ELSE IntV(100 + ((n * 150) \div 800) * 150),
              IF Has(element, "width") THEN element["width"] ELSE IntV(100),
              IF Has(element, "height") THEN element["height"] ELSE IntV(80))

\* CreateEdge referring to the source node instead of the flow
CreateEdge_BySource(flow_id, source_ref, target_ref) ==
  XmlNode("bpmndi:BPMNEdge",
          [id |-> StrV(<<"B","P","M","N","E","d","g","e","_">> \o flow_id.s),
           bpmnElement |-> source_ref],
          <<XmlNode("di:waypoint", [x |-> StrV(<<"0">>), y |-> StrV(<<"0">>)], <<>>),
            XmlNode("di:waypoint", [x |-> StrV(<<"1","0","0">>),
                                    y |-> StrV(<<"1","0","0">>)], <<>>)>>)

\* _create_edge: the edge with its two placeholder waypoints
CreateEdge(flow_id, source_ref, target_ref) ==
  XmlNode("bpmndi:BPMNEdge",
          [id |-> StrV(<<"B","P","M","N","E","d","g","e","_">> \o flow_id.s), bpmnElement |-> flow_id],
          <<XmlNode("di:waypoint", [x |-> StrV(<<"0">>), y |-> StrV(<<"0">>)], <<>>),
            XmlNode("di:waypoint", [x |-> StrV(<<"1","0","0">>),
                                    y |-> StrV(<<"1","0","0">>)], <<>>)>>)

\* FlowSkipped testing the source of a flow only
FlowSkipped_SourceOnly(flow, known) ==
  LET source_ref == GetOrEmpty(flow, "source_ref")
  IN ~Truthy(source_ref) \/ source_ref \notin DOMAIN known

\* "Skip invalid flows": the test that passes a flow over
FlowSkipped(flow, known) ==
  LET source_ref == GetOrEmpty(flow, "source_ref")
      target_ref == GetOrEmpty(flow, "target_ref")
  IN \/ ~Truthy(source_ref) \/ ~Truthy(target_ref)
     \/ source_ref \notin DOMAIN known \/ target_ref \notin DOMAIN known

\* the sequenceFlow node of a flow, with its condition child when there is one
FlowNode(flow) ==
  XmlNode("sequenceFlow",
          [id |-> flow["flow_id"], sourceRef |-> flow["source_ref"],
           targetRef |-> flow["target_ref"]],
          IF Has(flow, "condition_expr") /\ Truthy(flow["condition_expr"])
          THEN <<XmlNode("conditionExpression", [x \in {} |-> NoneV],
                         <<XmlNode("#text", [data |-> flow["condition_expr"]], <<>>)>>)>>
          ELSE <<>>)

(***************************************************************************)
(* BPMNGenerator: the contexts generate_from_context is called with.  The  *)
(* records are records ValidationLayer.validate returns: dicts whose       *)
(* required fields are present and whose schema fields are strings, so the *)
(* uuid defaults of the .get calls are never taken.                        *)
(***************************************************************************)
\* most elements after the first / most flows of a compiled context, and the
\* most generate_from_context calls on one generator
MaxGenElements == 2
MaxGenFlows == 2
MaxCompiles == 2

GenElement(id, type, subtype, name) ==
  Rec([element_id |-> StrV(id), element_name |-> StrV(name), element_type |-> StrV(type),
       element_subtype |-> subtype, process_id |-> ProcId1])

EventSubtypes ==
  { StrV(<<"s","t","a","r","t","E","v","e","n","t">>),
    StrV(<<"e","n","d","E","v","e","n","t">>),
    StrV(<<"s","t","a","r","t">>),
    StrV(<<"e","n","d">>),
    StrV(<<"M","e","s","s","a","g","e","C","a","t","c","h">>),
    StrV(<<"T","i","m","e","r","C","a","t","c","h">>),
    StrV(<<"E","r","r","o","r","T","h","r","o","w">>),
    StrV(<<"t","i","m","e","r">>),
    Absent }
TaskSubtypes ==
  { StrV(<<"u","s","e","r","T","a","s","k">>),
    StrV(<<"u","s","e","r">>),
    StrV(<<"s","e","r","v","i","c","e","T","a","s","k">>),
    StrV(<<"s","e","r","v","i","c","e">>),
    StrV(<<"s","c","r","i","p","t","T","a","s","k">>),
    StrV(<<"s","c","r","i","p","t">>),
    StrV(<<"b","u","s","i","n","e","s","s","R","u","l","e","T","a","s","k">>),
    StrV(<<"b","u","s","i","n","e","s","s","-","r","u","l","e">>),
    StrV(<<"b","u","s","i","n","e","s","s","R","u","l","e">>),
    StrV(<<"m","a","n","u","a","l","T","a","s","k">>),
    StrV(<<"m","a","n","u","a","l">>),
    StrV(<<"r","e","c","e","i","v","e","T","a","s","k">>),
    StrV(<<"r","e","c","e","i","v","e">>),
    StrV(<<"s","e","n","d","T","a","s","k">>),
    StrV(<<"s","e","n","d">>),
    StrV(<<"r","e","v","i","e","w">>),
    Absent }
GatewaySubtypes ==
  { StrV(<<"p","a","r","a","l","l","e","l","G","a","t","e","w","a","y">>),
    StrV(<<"p","a","r","a","l","l","e","l">>),
    StrV(<<"i","n","c","l","u","s","i","v","e","G","a","t","e","w","a","y">>),
    StrV(<<"i","n","c","l","u","s","i","v","e">>),
    StrV(<<"e","v","e","n","t","B","a","s","e","d","G","a","t","e","w","a","y">>),
    StrV(<<"e","v","e","n","t","-","b","a","s","e","d">>),
    StrV(<<"e","v","e","n","t","B","a","s","e","d">>),
    StrV(<<"c","o","m","p","l","e","x","G","a","t","e","w","a","y">>),
    StrV(<<"c","o","m","p","l","e","x">>),
    StrV(<<"e","x","c","l","u","s","i","v","e">>),
    Absent }

\* the first element of a context: every (type, subtype) pair
FirstElements ==
  { GenElement(TASK \o N001, sEvent, st, sName) : st \in EventSubtypes }
  \cup { GenElement(TASK \o N001, sTask, st, sName) : st \in TaskSubtypes }
  \cup { GenElement(TASK \o N001, sGateway, st, sName) : st \in GatewaySubtypes }
  \cup { GenElement(TASK \o N001, sSubprocess, Absent, sName),
         GenElement(TASK \o N001, sEventCap, StrV(sStartEvent), sName) }

\* the elements that follow it: a second node, a node with the id of the first
\* and without name, an element that is not compiled
FewElements ==
  { GenElement(TASK \o N002, sTask, StrV(sUserTask), sName),
    GenElement(TASK \o N001, sTask, Absent, <<>>),
    GenElement(TASK \o N002, sSubprocess, Absent, sName) }

GenElementBatches ==
  {<<>>} \cup { <<e>> \o r : e \in FirstElements, r \in Batches(FewElements, MaxGenElements - 1) }

GenFlow(id, src, tgt, cond) ==
  Rec([flow_id |-> StrV(id), source_ref |-> StrV(src), target_ref |-> StrV(tgt),
       process_id |-> ProcId1, condition_expr |-> cond])

\* two flows between the two nodes (one with a condition), a flow to an id
\* that no element has, a flow with an empty source
GenFlows ==
  { GenFlow(FLOW \o N001, TASK \o N001, TASK \o N002, Absent),
    GenFlow(FLOW \o N002, TASK \o N002, TASK \o N001, StrV(sDesc)),
    GenFlow(FLOW \o N001, TASK \o N001, sX1, Absent),
    GenFlow(FLOW \o N002, <<>>, TASK \o N002, Absent) }

\* a context; an empty list of headers stands for a context without the key
GenContext(pd, els, fls) ==
  [k \in (IF pd = <<>> THEN {} ELSE {"process_definitions"})
         \cup {"bpmn_elements", "sequence_flows"} |->
     CASE k = "process_definitions" -> pd
       [] k = "bpmn_elements" -> els
       [] OTHER -> fls]

GenContexts ==
  { GenContext(pd, els, fls) :
      pd \in {<<>>, <<ValidHeader>>}, els \in GenElementBatches,
      fls \in Batches(GenFlows, MaxGenFlows) }

\* the context of a later call on the same generator: the same context
\* without its elements
LaterContexts(c) == { [k \in DOMAIN c \ {"bpmn_elements"} |-> c[k]] }

(***************************************************************************)
(* BPMNGenerator.generate_from_context                                     *)
(***************************************************************************)
GenInit ==
  /\ RunsIdle
  /\ LlmIdle
  /\ PipelineIdle
  /\ nLevel = "none" /\ nData = <<>> /\ nCtx = NoContext /\ nOut = <<>> /\ nPc = "unused"
  /\ gPc = "new"
  /\ gContext \in GenContexts
  /\ gCalls = 0
  /\ gIdx = 0
  /\ gElements = [x \in {} |-> NoNode]
  /\ definitions_node = <<>>
  /\ diagram_node = <<>>
  /\ process_node = NoNode
  /\ plane_node = NoNode

\* InitializeDocument keeping the document of the previous call
InitializeDocument_KeepsDocument ==
  /\ \/ gPc = "new" /\ gContext' = gContext /\ definitions_node' = <<"bpmndi:BPMNDiagram">>
     \/ /\ gPc = "saved" /\ gCalls < MaxCompiles /\ gContext' \in LaterContexts(gContext)
        /\ definitions_node' = definitions_node
  /\ diagram_node' = <<>>
  /\ gIdx' = 0
  /\ gPc' = "process"
  /\ UNCHANGED <<gCalls, gElements, process_node, plane_node>>
  /\ UNCHANGED nvars
  /\ UNCHANGED pvars
  /\ UNCHANGED lvars
  /\ UNCHANGED rvars

\* generate_from_context is called (again, on a generator that has compiled):
\* _initialize_document makes a new document and diagram root; self.elements,
\* self.process_node and self.plane_node are left as they are
InitializeDocument ==
  /\ \/ gPc = "new" /\ gContext' = gContext
     \/ gPc = "saved" /\ gCalls < MaxCompiles /\ gContext' \in LaterContexts(gContext)
  /\ definitions_node' = <<"bpmndi:BPMNDiagram">>
  /\ diagram_node' = <<>>
  /\ gIdx' = 0
  /\ gPc' = "process"
  /\ UNCHANGED <<gCalls, gElements, process_node, plane_node>>
  /\ UNCHANGED nvars
  /\ UNCHANGED pvars
  /\ UNCHANGED lvars
  /\ UNCHANGED rvars

\* _create_process: the process container and the plane that refers to it
CreateProcess ==
  /\ gPc = "process"
  /\ LET has_def == "process_definitions" \in DOMAIN gContext
                    /\ gContext["process_definitions"] # <<>>
         process_def == gContext["process_definitions"][1]
         process_id == IF has_def /\ Has(process_def, "process_id")
                       THEN process_def["process_id"]
                       ELSE StrV(<<"P","r","o","c","e","s","s","_","1">>)
         process_name == IF has_def /\ Has(process_def, "process_name")
                         THEN process_def["process_name"]
                         ELSE StrV(<<"D","e","f","a","u","l","t"," ","P","r","o","c","e","s","s">>)
     IN /\ process_node' = XmlNode("process", [id |-> process_id, name |-> process_name], <<>>)
        /\ plane_node' = XmlNode("bpmndi:BPMNPlane",
                                 [id |-> StrV(<<"B","P","M","N","P","l","a","n","e","_">> \o process_id.s),
                                  bpmnElement |-> process_id], <<>>)
  /\ definitions_node' = Append(definitions_node, "process")
  /\ diagram_node' = Append(diagram_node, "bpmndi:BPMNPlane")
  /\ gPc' = "elements"
  /\ UNCHANGED <<gContext, gCalls, gIdx, gElements>>
  /\ UNCHANGED nvars
  /\ UNCHANGED pvars
  /\ UNCHANGED lvars
  /\ UNCHANGED rvars

\* context.get(k) is missing or empty
NoList(c, k) == IF k \in DOMAIN c THEN c[k] = <<>> ELSE TRUE

\* _create_elements returns at once: no elements
NoElements ==
  /\ gPc = "elements"
  /\ NoList(gContext, "bpmn_elements")
  /\ gPc' = "flows"
  /\ UNCHANGED <<gContext, gCalls, gIdx, gElements, definitions_node, diagram_node,
                 process_node, plane_node>>
  /\ UNCHANGED nvars
  /\ UNCHANGED pvars
  /\ UNCHANGED lvars
  /\ UNCHANGED rvars

\* one iteration of the loop of _create_elements; the last one leaves the loop
CreateElement ==
  /\ gPc = "elements"
  /\ ~NoList(gContext, "bpmn_elements")
  /\ gIdx < Len(gContext["bpmn_elements"])
  /\ LET element == gContext["bpmn_elements"][gIdx + 1]
         bpmn_node == ElementNode(element)
         known == SetField(gElements, element["element_id"], bpmn_node)
     IN IF bpmn_node # NoNode
        THEN /\ process_node' = AppendChild(process_node, bpmn_node)
             /\ gElements' = known
             /\ plane_node' = AppendChild(plane_node,
                                          ShapeOf(element, Cardinality(DOMAIN known)))
        ELSE UNCHANGED <<process_node, gElements, plane_node>>
  /\ IF gIdx + 1 = Len(gContext["bpmn_elements"])
     THEN gPc' = "flows" /\ gIdx' = 0
     ELSE gPc' = "elements" /\ gIdx' = gIdx + 1
  /\ UNCHANGED <<gContext, gCalls, definitions_node, diagram_node>>
  /\ UNCHANGED nvars
  /\ UNCHANGED pvars
  /\ UNCHANGED lvars
  /\ UNCHANGED rvars

\* _create_flows returns at once: no flows
NoFlows ==
  /\ gPc = "flows"
  /\ NoList(gContext, "sequence_flows")
  /\ gPc' = "save"
  /\ UNCHANGED <<gContext, gCalls, gIdx, gElements, definitions_node, diagram_node,
                 process_node, plane_node>>
  /\ UNCHANGED nvars
  /\ UNCHANGED pvars
  /\ UNCHANGED lvars
  /\ UNCHANGED rvars

\* one iteration of the loop of _create_flows; the last one leaves the loop
CreateFlow ==
  /\ gPc = "flows"
  /\ ~NoList(gContext, "sequence_flows")
  /\ gIdx < Len(gContext["sequence_flows"])
  /\ LET flow == gContext["sequence_flows"][gIdx + 1]
     IN IF FlowSkipped(flow, gElements)
        THEN UNCHANGED <<process_node, plane_node>>
        ELSE /\ process_node' = AppendChild(process_node, FlowNode(flow))
             /\ plane_node' = AppendChild(plane_node,
                                CreateEdge(flow["flow_id"], flow["source_ref"],
                                           flow["target_ref"]))
  /\ IF gIdx + 1 = Len(gContext["sequence_flows"])
     THEN gPc' = "save" /\ gIdx' = 0
     ELSE gPc' = "flows" /\ gIdx' = gIdx + 1
  /\ UNCHANGED <<gContext, gCalls, gElements, definitions_node, diagram_node>>
  /\ UNCHANGED nvars
  /\ UNCHANGED pvars
  /\ UNCHANGED lvars
  /\ UNCHANGED rvars

\* _save_to_file writes the document (the write succeeds) and the call returns
SaveToFile ==
  /\ gPc = "save"
  /\ gPc' = "saved"
  /\ gCalls' = gCalls + 1
  /\ UNCHANGED <<gContext, gIdx, gElements, definitions_node, diagram_node,
                 process_node, plane_node>>
  /\ UNCHANGED nvars
  /\ UNCHANGED pvars
  /\ UNCHANGED lvars
  /\ UNCHANGED rvars

GenNext ==
  \/ InitializeDocument
  \/ CreateProcess
  \/ NoElements
  \/ CreateElement
  \/ NoFlows
  \/ CreateFlow
  \/ SaveToFile

GenSpec == GenInit /\ [][GenNext]_vars

(***************************************************************************)
(* DataGenerator.call_llm, APICaller.send_prompt and                       *)
(* LogicalValidator.check_integrity                                        *)
(***************************************************************************)
\* JSON values as json.loads builds them: lists, dicts, strings, integers
JList(items) == [t |-> "list", items |-> items]
JDict(keys, vals) == [t |-> "dict", keys |-> keys, vals |-> vals]
IsJList(v) == v.t = "list"
IsJDict(v) == v.t = "dict"
\* d.get(key), None when the key is absent
JGet(d, key) ==
  IF \E k \in 1..Len(d.keys) : d.keys[k] = key
  THEN d.vals[CHOOSE k \in 1..Len(d.keys) : d.keys[k] = key]
  ELSE NoneV

\* "not text" / "if rows" on a value of either family
Falsy(v) ==
  CASE v.t = "list" -> v.items = <<>>
    [] v.t = "dict" -> v.keys = <<>>
    [] OTHER -> ~Truthy(v)

QUOTE == "\""
WhiteSpace == {" ", "\n"}
CharAt(s, i) == IF i >= 1 /\ i <= Len(s) THEN s[i] ELSE ""
IsDigitChar(c) == \E k \in 1..10 : Digits[k] = c
\* first and last position of one of the characters cs in s, 0 when there is none
FirstOf(s, cs) ==
  IF \E i \in 1..Len(s) : s[i] \in cs
  THEN CHOOSE i \in 1..Len(s) : s[i] \in cs /\ \A j \in 1..(i - 1) : s[j] \notin cs
  ELSE 0
LastOf(s, cs) ==
  IF \E i \in 1..Len(s) : s[i] \in cs
  THEN CHOOSE i \in 1..Len(s) : s[i] \in cs /\ \A j \in (i + 1)..Len(s) : s[j] \notin cs
  ELSE 0
\* first position from i on where s holds c, 0 when there is none
NextAt(s, i, c) ==
  IF \E j \in i..Len(s) : s[j] = c
  THEN CHOOSE j \in i..Len(s) : s[j] = c /\ \A k \in i..(j - 1) : s[k] # c
  ELSE 0
\* the end of the run of characters of cs that starts at i (i - 1 when it is empty)
RECURSIVE RunEnd(_, _, _)
RunEnd(s, i, cs) == IF CharAt(s, i) \in cs THEN RunEnd(s, i + 1, cs) ELSE i - 1

\* json.loads on a text without white space, escapes, fractions, signs or
\* literals: a value and the position after it, or a failure
ParseFail == [ok |-> FALSE, v |-> NoneV, i |-> 0]
Parsed(v, i) == [ok |-> TRUE, v |-> v, i |-> i]
ParseString(s, i) ==
  LET close == NextAt(s, i + 1, QUOTE)
  IN IF CharAt(s, i) # QUOTE \/ close = 0 THEN ParseFail
     ELSE Parsed(StrV(SubSeq(s, i + 1, close - 1)), close + 1)
ParseNumber(s, i) ==
  LET last == RunEnd(s, i, {Digits[k] : k \in 1..10})
  IN IF last < i \/ (last > i /\ s[i] = "0") THEN ParseFail
     ELSE Parsed([t |-> "int", s |-> SubSeq(s, i, last)], last + 1)
RECURSIVE ParseValue(_, _), ParseItems(_, _, _), ParseMembers(_, _, _, _)
ParseValue(s, i) ==
  LET c == CharAt(s, i)
  IN IF c = "[" THEN IF CharAt(s, i + 1) = "]" THEN Parsed(JList(<<>>), i + 2)
                     ELSE ParseItems(s, i + 1, <<>>)
     ELSE IF c = "{" THEN IF CharAt(s, i + 1) = "}" THEN Parsed(JDict(<<>>, <<>>), i + 2)
                          ELSE ParseMembers(s, i + 1, <<>>, <<>>)
     ELSE IF c = QUOTE THEN ParseString(s, i)
     ELSE IF IsDigitChar(c) THEN ParseNumber(s, i)
     ELSE ParseFail
ParseItems(s, i, acc) ==
  LET r == ParseValue(s, i)
  IN IF ~r.ok THEN ParseFail
     ELSE IF CharAt(s, r.i) = "," THEN ParseItems(s, r.i + 1, Append(acc, r.v))
     ELSE IF CharAt(s, r.i) = "]" THEN Parsed(JList(Append(acc, r.v)), r.i + 1)
     ELSE ParseFail
ParseMembers(s, i, keys, vals) ==
  LET k == ParseString(s, i)
  IN IF ~k.ok \/ CharAt(s, k.i) # ":" THEN ParseFail
     ELSE LET r == ParseValue(s, k.i + 1)
          IN IF ~r.ok THEN ParseFail
             ELSE IF CharAt(s, r.i) = ","
                  THEN ParseMembers(s, r.i + 1, Append(keys, k.v.s), Append(vals, r.v))
             ELSE IF CharAt(s, r.i) = "}"
                  THEN Parsed(JDict(Append(keys, k.v.s), Append(vals, r.v)), r.i + 1)
             ELSE ParseFail
\* json.loads(text): ok is FALSE where it raises JSONDecodeError
JsonLoads(text) ==
  LET r == ParseValue(text, 1)
  IN IF r.ok /\ r.i = Len(text) + 1 THEN [ok |-> TRUE, v |-> r.v]
     ELSE [ok |-> FALSE, v |-> NoneV]

\* the grave accent U+0060, which cannot be written inside a string here
GRAVE == "U+0060"
FENCE == <<GRAVE, GRAVE, GRAVE>>
\* re.sub removing each code fence: three backticks, an optional json and the
\* white space after them, or white space and the three backticks after it
RECURSIVE RemoveFences(_)
RemoveFences(s) ==
  IF ~Contains(s, FENCE) THEN s
  ELSE IF StartsWith(s, FENCE)
       THEN LET afterTag == IF StartsWith(SubSeq(s, 4, Len(s)), <<"j","s","o","n">>)
                            THEN 8 ELSE 4
                rest == RunEnd(s, afterTag, WhiteSpace) + 1
            IN RemoveFences(SubSeq(s, rest, Len(s)))
  ELSE LET blanks == RunEnd(s, 1, WhiteSpace)
       IN IF blanks >= 1 /\ StartsWith(SubSeq(s, blanks + 1, Len(s)), FENCE)
          THEN RemoveFences(SubSeq(s, blanks + 4, Len(s)))
          ELSE <<s[1]>> \o RemoveFences(Tail(s))

\* _clean_json_text
CleanJsonText(text) ==
  LET unfenced == RemoveFences(text)
      start_idx == FirstOf(unfenced, {"[", "{"})
      end_idx == LastOf(unfenced, {"]", "}"})
  IN IF start_idx # 0 /\ end_idx # 0 THEN SubSeq(unfenced, start_idx, end_idx)
     ELSE unfenced

\* _extract_json_content: the contents between the first '[' and the last ']'
\* when they hold "}," and else between the first '{' and the last '}', put
\* back between the brackets and parsed; [] when nothing matches or the
\* parse raises
ExtractJsonContent(text) ==
  LET lo == FirstOf(text, {"["})
      hi == LastOf(text, {"]"})
      list_match == lo # 0 /\ hi > lo
      dlo == FirstOf(text, {"{"})
      dhi == LastOf(text, {"}"})
      dict_match == dlo # 0 /\ dhi > dlo
  IN IF list_match /\ Contains(SubSeq(text, lo + 1, hi - 1), <<"}", ",">>)
     THEN LET r == JsonLoads(SubSeq(text, lo, hi))
          IN IF r.ok THEN r.v ELSE JList(<<>>)
     ELSE IF dict_match
     THEN LET r == JsonLoads(SubSeq(text, dlo, dhi))
          IN IF r.ok THEN r.v ELSE JList(<<>>)
     ELSE JList(<<>>)

\* reply texts
\* an empty reply
tEmpty == <<>>
\* prose without JSON
tProse == <<"o", "o", "p", "s">>
\* valid JSON that is neither a list nor a record
tScalar == <<"7">>
\* a list
tList == <<"[", "1", "]">>
\* a record
tRecord == <<"{", QUOTE, "a", QUOTE, ":", "1", "}">>
\* a list in a markdown code block
tFenced == <<GRAVE, GRAVE, GRAVE, "j", "s", "o", "n", "\n", "[", "1", "]", "\n", GRAVE, GRAVE, GRAVE>>
\* a record whose "message" string holds a list
tWrapped ==
  <<"{", QUOTE, "m", "e", "s", "s", "a", "g", "e", QUOTE, ":", QUOTE, "[", "1", "]",
    QUOTE, "}">>
\* a record whose "message" string holds prose
tWrappedProse ==
  <<"{", QUOTE, "m", "e", "s", "s", "a", "g", "e", QUOTE, ":", QUOTE, "o", "o", "p",
    "s", QUOTE, "}">>
\* malformed text whose outermost braces hold a record
tListThenRecord == <<"[", "1", "]", "x", "{", QUOTE, "a", QUOTE, ":", "1", "}">>
\* malformed text whose outermost brackets hold a list of records
tRecordsInList ==
  <<"{", "x", "[", "{", QUOTE, "a", QUOTE, ":", "1", "}", ",", "{", QUOTE, "b",
    QUOTE, ":", "2", "}", "]">>
\* malformed text from which nothing can be extracted
tBadList == <<"[", "1", "]", "]">>
\* one complete issue record
tIssue ==
  <<"[", "{", QUOTE, "p", "r", "o", "b", "l", "e", "m", "_", "t", "y", "p", "e",
    QUOTE, ":", QUOTE, "p", QUOTE, ",", QUOTE, "d", "e", "s", "c", "r", "i", "p",
    "t", "i", "o", "n", QUOTE, ":", QUOTE, "d", QUOTE, ",", QUOTE, "e", "l", "e",
    "m", "e", "n", "t", "s", QUOTE, ":", "[", QUOTE, "E", QUOTE, "]", ",", QUOTE,
    "s", "e", "v", "e", "r", "i", "t", "y", QUOTE, ":", QUOTE, "h", "i", "g", "h",
    QUOTE, "}", "]">>
\* one issue record without elements and severity
tIssueBare ==
  <<"[", "{", QUOTE, "p", "r", "o", "b", "l", "e", "m", "_", "t", "y", "p", "e",
    QUOTE, ":", QUOTE, "p", QUOTE, ",", QUOTE, "d", "e", "s", "c", "r", "i", "p",
    "t", "i", "o", "n", QUOTE, ":", QUOTE, "d", QUOTE, "}", "]">>
ReplyTexts == {tEmpty, tProse, tScalar, tList, tRecord, tFenced, tWrapped, tWrappedProse, tListThenRecord, tRecordsInList, tBadList, tIssue, tIssueBare}

\* what send_prompt can return: a text, None (a null content) or a content
\* that is a list of parts instead of a string
ReplyValues == {StrV(t) : t \in ReplyTexts} \cup {NoneV, JList(<<StrV(tProse)>>)}

\* "message" in text
MESSAGE == <<"m", "e", "s", "s", "a", "g", "e">>
HELLO == <<"H", "e", "l", "l", "o">>
\* the "message" string of a parsed container, the text when there is none
MessageOf(parsed_container, text) ==
  IF parsed_container.ok /\ IsJDict(parsed_container.v)
     /\ IsStr(JGet(parsed_container.v, MESSAGE))
  THEN JGet(parsed_container.v, MESSAGE)
  ELSE text
\* call_llm, the special handling of a reply that carries the JSON as a string
\* under "message"
UnwrapMessage(text) ==
  IF IsStr(text) /\ StartsWith(text.s, <<"{">>) /\ Contains(text.s, MESSAGE)
     /\ ~Contains(text.s, HELLO)
  THEN MessageOf(JsonLoads(text.s), text)
  ELSE text

\* call_llm, "retry_count < max_retries" with max_retries = 1
MayRetry_Twice(retry_count) == retry_count < 2
MayRetry(retry_count) == retry_count < 1

\* send_prompt, "retry_count < max_retries" with max_retries = 2
MayRetryApi_Thrice(retry_count) == retry_count < 3
MayRetryApi(retry_count) == retry_count < 2

\* what one pass of the body of call_llm's loop does with the outcome of
\* send_prompt: "return" with rows, or "continue" with the next prompt;
\* extract tells whether _extract_json_content was applied
LoopReturn(rows, extract) ==
  [op |-> "return", rows |-> rows, prompt |-> OriginalPrompt, extract |-> extract]
LoopContinue(prompt) ==
  [op |-> "continue", rows |-> NoneV, prompt |-> prompt, extract |-> FALSE]
\* the handlers that retry with the prompt as it is or give up with []
RetryOrEmpty(prompt, retry_count) ==
  IF MayRetry(retry_count) THEN LoopContinue(prompt) ELSE LoopReturn(JList(<<>>), FALSE)
\* the JSONDecodeError handler: the fix-it prompt while a retry is left, else
\* the extraction
AfterDecodeError(cleaned, prompt, retry_count) ==
  IF MayRetry(retry_count) THEN LoopContinue(FixPrompt(cleaned))
  ELSE LoopReturn(IF Falsy(ExtractJsonContent(cleaned)) THEN JList(<<>>)
                  ELSE ExtractJsonContent(cleaned), TRUE)
\* after rows = json.loads(text)
AfterLoads(cleaned, rows, prompt, retry_count) ==
  IF rows.ok
  THEN IF IsJList(rows.v) \/ IsJDict(rows.v) THEN LoopReturn(rows.v, FALSE)
       ELSE RetryOrEmpty(prompt, retry_count)
  ELSE AfterDecodeError(cleaned, prompt, retry_count)
\* after the special handling of a "message" container
AfterUnwrap(text, prompt, retry_count) ==
  IF ~IsStr(text) THEN RetryOrEmpty(prompt, retry_count)
  ELSE AfterLoads(CleanJsonText(text.s), JsonLoads(CleanJsonText(text.s)), prompt,
                  retry_count)
LoopBody(outcome, prompt, retry_count) ==
  IF outcome.kind = "raised" THEN RetryOrEmpty(prompt, retry_count)
  ELSE IF Falsy(outcome.v) THEN RetryOrEmpty(prompt, retry_count)
  ELSE AfterUnwrap(UnwrapMessage(outcome.v), prompt, retry_count)

\* call_llm is entered and calls send_prompt with the original prompt
CallLlm ==
  /\ lPc = "new"
  /\ lPc' = "send"
  /\ lPrompt' = OriginalPrompt
  /\ lRetry' = 0
  /\ lSent' = <<OriginalPrompt>>
  /\ lApiRetry' = 0
  /\ lHttp' = 0
  /\ UNCHANGED <<lText, lRows, lReplies, lExtracted, lIssues>>
  /\ UNCHANGED nvars
  /\ UNCHANGED pvars
  /\ UNCHANGED gvars
  /\ UNCHANGED rvars

\* send_prompt has its outcome and returns to call_llm
SendPromptEnds(outcome) ==
  /\ lText' = outcome
  /\ lReplies' = Append(lReplies, outcome)
  /\ lPc' = "reply"

\* send_prompt without an API key raises before any request
SendPromptWithoutKey ==
  /\ lPc = "send"
  /\ lHttp = 0
  /\ SendPromptEnds(Raised)
  /\ UNCHANGED <<lPrompt, lRetry, lRows, lSent, lExtracted, lApiRetry, lHttp, lIssues>>
  /\ UNCHANGED nvars
  /\ UNCHANGED pvars
  /\ UNCHANGED gvars
  /\ UNCHANGED rvars

\* one pass of send_prompt's loop: requests.post raises or answers with a
\* status that raise_for_status rejects
HttpAttemptFails ==
  /\ lPc = "send"
  /\ MayRetryApi(lApiRetry)
  /\ lHttp' = lHttp + 1
  /\ \E status_429 \in BOOLEAN :
       LET counted == lApiRetry + 1
           \* a 429 on the last attempt is counted, falls through to
           \* raise_for_status and is counted again by the handler
           after == IF status_429 /\ ~MayRetryApi(counted) THEN counted + 1 ELSE counted
       IN /\ lApiRetry' = after
          /\ IF MayRetryApi(after)
             THEN UNCHANGED <<lText, lReplies, lPc>>
             ELSE SendPromptEnds(Raised)
  /\ UNCHANGED <<lPrompt, lRetry, lRows, lSent, lExtracted, lIssues>>
  /\ UNCHANGED nvars
  /\ UNCHANGED pvars
  /\ UNCHANGED gvars
  /\ UNCHANGED rvars

\* one pass of send_prompt's loop: the request is answered and the content of
\* the first choice is returned
HttpAttemptSucceeds ==
  /\ lPc = "send"
  /\ MayRetryApi(lApiRetry)
  /\ lHttp' = lHttp + 1
  /\ \E content \in ReplyValues : SendPromptEnds(Returned(content))
  /\ UNCHANGED <<lPrompt, lRetry, lRows, lSent, lExtracted, lApiRetry, lIssues>>
  /\ UNCHANGED nvars
  /\ UNCHANGED pvars
  /\ UNCHANGED gvars
  /\ UNCHANGED rvars

\* call_llm treats the outcome of send_prompt: it returns, or calls
\* send_prompt again
CallLlmLoop ==
  /\ lPc = "reply"
  /\ LET step == LoopBody(lText, lPrompt, lRetry)
     IN /\ lExtracted' = IF step.extract THEN lExtracted \cup {Len(lReplies)} ELSE lExtracted
        /\ IF step.op = "return"
           THEN /\ lRows' = step.rows
                /\ lPc' = "returned"
                /\ UNCHANGED <<lPrompt, lRetry, lSent, lApiRetry, lHttp>>
           ELSE /\ lPrompt' = step.prompt
                /\ lRetry' = lRetry + 1
                /\ lSent' = Append(lSent, step.prompt)
                /\ lApiRetry' = 0
                /\ lHttp' = 0
                /\ lPc' = "send"
                /\ UNCHANGED lRows
  /\ UNCHANGED <<lText, lReplies, lIssues>>
  /\ UNCHANGED nvars
  /\ UNCHANGED pvars
  /\ UNCHANGED gvars
  /\ UNCHANGED rvars

\* check_integrity: a list is returned as it is, anything else goes to
\* json.loads, which raises on a dict, and is returned as it is
CheckIntegrity ==
  /\ lPc = "returned"
  /\ lIssues' = IF IsJList(lRows) THEN lRows ELSE lRows
  /\ lPc' = "checked"
  /\ UNCHANGED <<lPrompt, lRetry, lText, lRows, lSent, lReplies, lExtracted, lApiRetry, lHttp>>
  /\ UNCHANGED nvars
  /\ UNCHANGED pvars
  /\ UNCHANGED gvars
  /\ UNCHANGED rvars

LlmInit ==
  /\ RunsIdle
  /\ nLevel = "none" /\ nData = <<>> /\ nCtx = NoContext /\ nOut = <<>> /\ nPc = "unused"
  /\ PipelineIdle
  /\ GeneratorIdle
  /\ lPc = "new"
  /\ lPrompt = OriginalPrompt
  /\ lRetry = 0
  /\ lText = Raised
  /\ lRows = NoneV
  /\ lSent = <<>>
  /\ lReplies = <<>>
  /\ lExtracted = {}
  /\ lApiRetry = 0
  /\ lHttp = 0
  /\ lIssues = NoneV

LlmNext ==
  \/ CallLlm
  \/ SendPromptWithoutKey
  \/ HttpAttemptFails
  \/ HttpAttemptSucceeds
  \/ CallLlmLoop
  \/ CheckIntegrity

LlmSpec == LlmInit /\ [][LlmNext]_vars

(***************************************************************************)
(* Two DataGenerationPipeline objects constructed and run side by side     *)
(***************************************************************************)
MaxClock == 2
PipelineIds == {1, 2}
\* the different product descriptions of the two runs
DescriptionOf(p) == IF p = 1 THEN StrV(<<"A">>) ELSE StrV(<<"B">>)
\* the dict objects: two made by the caller, and the one that
\* APIConfig.get_default_options() makes for each constructor call without one
DefaultOptions(p) == IF p = 1 THEN "default1" ELSE "default2"
OptionObjects == {"caller1", "caller2", "default1", "default2"}
\* directories base/run_<timestamp>, the timestamp to the second
RunDir(base, timestamp) == <<base, timestamp>>
OutputDirs == {RunDir(base, t) : base \in {"output", "other"}, t \in 0..MaxClock}
RunFiles == {"raw_phases.json", "complete_context.json", "generation_summary.json"}
NoFile == NoneV
\* open(filepath, 'w') and json.dump: the file is created or replaced
SaveJson(docs, output_dir, filename, data) ==
  [docs EXCEPT ![output_dir] = [@ EXCEPT ![filename] = data]]

\* a second of the clock passes
Tick ==
  /\ clock < MaxClock
  /\ clock' = clock + 1
  /\ UNCHANGED <<option_records, documents, pipelines>>
  /\ UNCHANGED nvars
  /\ UNCHANGED pvars
  /\ UNCHANGED gvars
  /\ UNCHANGED lvars

\* __init__: the options object is the caller's or a fresh default one and
\* gets the description written into it; the output directory is named after
\* the current second; the context is a new dict
Construct(p) ==
  /\ pipelines[p].pc = "new"
  /\ LET api_options == IF pipelines[p].arg_options = "none" THEN DefaultOptions(p)
                        ELSE pipelines[p].arg_options
     IN /\ option_records' = [option_records EXCEPT ![api_options] = DescriptionOf(p)]
        /\ pipelines' = [pipelines EXCEPT ![p] =
                           [@ EXCEPT !.pc = "constructed",
                                     !.product_description = DescriptionOf(p),
                                     !.api_options = api_options,
                                     !.output_dir = RunDir(pipelines[p].arg_output_dir, clock),
                                     !.context = <<>>]]
  /\ UNCHANGED <<clock, documents>>
  /\ UNCHANGED nvars
  /\ UNCHANGED pvars
  /\ UNCHANGED gvars
  /\ UNCHANGED lvars

\* run(), first stage: the collaborator is called with the prompt for
\* self.product_description and with self.api_options; its reply, phases for
\* the description of the prompt, is saved and stored in the context
GenerateProcessMap(p) ==
  /\ pipelines[p].pc = "constructed"
  /\ LET phases == <<pipelines[p].product_description>>
     IN /\ pipelines' = [pipelines EXCEPT ![p] =
                           [@ EXCEPT !.pc = "phases",
                                     !.options_read = option_records[pipelines[p].api_options],
                                     !.context = phases]]
        /\ documents' = SaveJson(documents, pipelines[p].output_dir, "raw_phases.json",
                                 pipelines[p].product_description)
  /\ UNCHANGED <<clock, option_records>>
  /\ UNCHANGED nvars
  /\ UNCHANGED pvars
  /\ UNCHANGED gvars
  /\ UNCHANGED lvars

\* run(), the finally block: the context and the summary are saved
FinalizeRun(p) ==
  /\ pipelines[p].pc = "phases"
  /\ pipelines' = [pipelines EXCEPT ![p] = [@ EXCEPT !.pc = "returned"]]
  /\ documents' = SaveJson(SaveJson(documents, pipelines[p].output_dir,
                                    "complete_context.json", pipelines[p].context[1]),
                           pipelines[p].output_dir, "generation_summary.json",
                           pipelines[p].product_description)
  /\ UNCHANGED <<clock, option_records>>
  /\ UNCHANGED nvars
  /\ UNCHANGED pvars
  /\ UNCHANGED gvars
  /\ UNCHANGED lvars

\* before either constructor runs: the caller holds two options dicts without a
\* description and hands each constructor one of them or none, and an output
\* directory or none
NewPipeline(arg_options, arg_output_dir) ==
  [pc |-> "new", arg_options |-> arg_options, arg_output_dir |-> arg_output_dir,
   product_description |-> NoneV, api_options |-> "none",
   output_dir |-> RunDir(arg_output_dir, 0), context |-> <<>>, options_read |-> NoneV]
RunsInit ==
  /\ LlmIdle
  /\ PipelineIdle
  /\ GeneratorIdle
  /\ nLevel = "none" /\ nData = <<>> /\ nCtx = NoContext /\ nOut = <<>> /\ nPc = "unused"
  /\ clock = 0
  /\ option_records = [o \in OptionObjects |-> NoneV]
  /\ documents = [d \in OutputDirs |-> [f \in RunFiles |-> NoFile]]
  /\ \E o1 \in {"none", "caller1"}, o2 \in {"none", "caller1", "caller2"},
        dir2 \in {"output", "other"} :
       pipelines = [p \in PipelineIds |->
                      IF p = 1 THEN NewPipeline(o1, "output") ELSE NewPipeline(o2, dir2)]

RunsNext ==
  \/ Tick
  \/ \E p \in PipelineIds : Construct(p)
  \/ \E p \in PipelineIds : GenerateProcessMap(p)
  \/ \E p \in PipelineIds : FinalizeRun(p)

RunsSpec == RunsInit /\ [][RunsNext]_vars

(***************************************************************************)
(* Properties of the normalizer (checked under NormSpec)                   *)
(***************************************************************************)
\* the identifier field of a kind
IdField(level) ==
  CASE level = "process_phases" -> "phase_id"
    [] level = "process_definitions" -> "process_id"
    [] level = "bpmn_elements" -> "element_id"
    [] level = "sequence_flows" -> "flow_id"
    [] level = "resources" -> "resource_id"
    [] level = "pools" -> "pool_id"
    [] OTHER -> "lane_id"

\* the prefixes the convention allows for a kind
KindPrefixes(level) ==
  CASE level = "process_definitions" -> {PROC}
    [] level = "bpmn_elements" -> {START, END, EVEN, TASK, GATE}
    [] level = "sequence_flows" -> {FLOW}
    [] level = "resources" -> {<<"R","E","S","_">>}
    [] level = "pools" -> {POOL}
    [] OTHER -> {LANE}

PrefixedLevels == {"process_definitions", "bpmn_elements", "sequence_flows",
                   "resources", "pools", "lanes"}

\* C6: after normalization of a batch of a kind with a prefix convention every
\* record of the output has a non-empty string identifier that starts with a
\* prefix of its kind (a task with raw id "X1" does not keep "X1").
C6_IdsPrefixed ==
  (nPc = "done" /\ nLevel \in PrefixedLevels) =>
    \A k \in 1..Len(nOut) :
      /\ Has(nOut[k], IdField(nLevel))
      /\ IsStr(nOut[k][IdField(nLevel)])
      /\ nOut[k][IdField(nLevel)].s # <<>>
      /\ \E p \in KindPrefixes(nLevel) : StartsWith(nOut[k][IdField(nLevel)].s, p)

\* C7: the identifiers of the records returned by one normalize call are
\* pairwise distinct, for every kind and every raw batch.
C7_IdsDistinct ==
  (nPc = "done" /\ nLevel \in SchemaLevels) =>
    \A j, k \in 1..Len(nOut) :
      j # k => nOut[j][IdField(nLevel)] # nOut[k][IdField(nLevel)]

\* The fields a raw record must carry to be accepted, besides an identifier
\* that validate synthesizes and a reference that the context back-fills.
NeededFields(level) ==
  CASE level = "process_definitions" -> {"process_id", "process_name", "description"}
    [] level = "bpmn_elements" -> {"element_name", "element_type", "process_id"}
    [] level = "sequence_flows" -> {"source_ref", "target_ref", "process_id"}
    [] level = "pools" -> {"pool_name", "process_id", "description"}
    [] OTHER -> {"lane_name", "pool_id", "process_id", "description"}

\* the header id / pool id the context supplies for a missing reference
Supplied(level, f, ctx) ==
  IF f = "process_id" /\ level # "process_definitions"
  THEN IF ctx.pd.kind = "list" /\ Len(ctx.pd.items) > 0
       THEN ctx.pd.items[1]["process_id"]
       ELSE IF ctx.pd.kind = "dict" /\ level \in {"bpmn_elements", "sequence_flows"}
            THEN ctx.pd.rec["process_id"]
            ELSE NoneV
  ELSE IF f = "pool_id" /\ level = "lanes" /\ ctx.pool.kind = "dict"
       THEN ctx.pool.rec["pool_id"]
       ELSE NoneV

\* a raw item that lacks nothing but, possibly, its identifier
Complete(level, item, ctx) ==
  /\ IsDict(item)
  /\ \A f \in NeededFields(level) : Has(item, f) \/ Supplied(level, f, ctx) # NoneV

\* position in the output of the raw item at position i (order is preserved)
OutIndex(i) == Cardinality({k \in 1..i : Complete(nLevel, nData[k], nCtx)})

\* the prefix the rule assigns to an element: by type and subtype, case-insensitively
RulePrefix(e) ==
  LET ty == StrLower(e["element_type"].s)
      st == IF Has(e, "element_subtype") THEN StrLower(e["element_subtype"].s) ELSE <<>>
  IN IF ty = sTask THEN TASK
     ELSE IF ty = sGateway THEN GATE
     ELSE IF Contains(st, <<"s","t","a","r","t">>) THEN START
     ELSE IF Contains(st, <<"e","n","d">>) THEN END
     ELSE EVEN

\* an element of one of the three types, whose id is missing, empty or not a string
NeedsElementId(e) ==
  /\ IsDict(e)
  /\ (~Has(e, "element_id") \/ ~IsStr(e["element_id"]) \/ e["element_id"].s = <<>>)
  /\ Has(e, "element_type") /\ IsStr(e["element_type"])
  /\ StrLower(e["element_type"].s) \in {sEvent, sTask, sGateway}

BeginEvent == Element(Absent, StrV(sEvent), StrV(sStartEvent), StrV(sName), Absent)

\* C9: an element whose id is missing, empty or not a string, at 1-based position
\* i of its batch, is kept (it is not rejected for its id: it is in the output
\* whenever its name, type and process reference are there) with the id
\* <prefix><i as 3 digits>, prefix START_/END_/EVEN_ for an event by subtype,
\* TASK_ for a task, GATE_ for a gateway; a missing process_id is set to the id
\* of the context's header; the batch [Begin start event] yields exactly one
\* record, with id START_001.
C9_SynthesizedElementId ==
  (nPc = "done" /\ nLevel = "bpmn_elements") =>
    /\ \A i \in 1..Len(nData) :
         (NeedsElementId(nData[i]) /\ Complete(nLevel, nData[i], nCtx)) =>
           /\ OutIndex(i) \in 1..Len(nOut)
           /\ nOut[OutIndex(i)]["element_id"] = StrV(RulePrefix(nData[i]) \o Pad3(i))
           /\ nOut[OutIndex(i)]["element_name"] = nData[i]["element_name"]
           /\ (~Has(nData[i], "process_id") =>
                 nOut[OutIndex(i)]["process_id"] = Supplied(nLevel, "process_id", nCtx))
    /\ (nData = <<BeginEvent>> /\ nCtx.pd.kind # "absent") =>
         /\ Len(nOut) = 1
         /\ nOut[1]["element_id"] = StrV(<<"S","T","A","R","T","_","0","0","1">>)
         /\ nOut[1]["process_id"] = ProcId1

\* C9 witness: an event without id was normalized at position 2, behind a record
\* that was rejected, with a header in the context.
C9_Witness ==
  /\ nPc = "done" /\ nLevel = "bpmn_elements" /\ nCtx.pd.kind = "list"
  /\ Len(nData) = 2 /\ nData[2] = BeginEvent /\ ~Complete(nLevel, nData[1], nCtx)
  /\ Len(nOut) = 1
  /\ nOut[1]["element_id"] = StrV(<<"S","T","A","R","T","_","0","0","2">>)

\* the last three characters of an id, the whole id when it is shorter
LastThree(s) == IF Len(s) < 3 THEN s ELSE <<s[Len(s) - 2], s[Len(s) - 1], s[Len(s)]>>

RewriteLevels == {"process_definitions", "sequence_flows", "pools", "lanes"}

\* an id the rewrite rule applies to: a string, non-empty for the kinds whose
\* empty id is synthesized
RewritableId(level, item) ==
  /\ IsDict(item) /\ Has(item, IdField(level)) /\ IsStr(item[IdField(level)])
  /\ (level # "process_definitions" => item[IdField(level)].s # <<>>)

\* C10: for flow, pool, lane and process-header records, an id that is present
\* but does not start with the kind's prefix becomes <prefix> followed by the
\* last three characters of the original id (the whole id when shorter), and an
\* id that starts with the prefix is unchanged.
C10_IdRewrite ==
  (nPc = "done" /\ nLevel \in RewriteLevels) =>
    \A i \in 1..Len(nData) :
      (RewritableId(nLevel, nData[i]) /\ Complete(nLevel, nData[i], nCtx)) =>
        LET id == nData[i][IdField(nLevel)].s
            p == CHOOSE q \in KindPrefixes(nLevel) : TRUE
        IN /\ OutIndex(i) \in 1..Len(nOut)
           /\ nOut[OutIndex(i)][IdField(nLevel)] =
                IF StartsWith(id, p) THEN StrV(id) ELSE StrV(p \o LastThree(id))

\* C10 witness: a flow "A001" was rewritten to FLOW_001 next to a flow whose
\* id FLOW_002 was kept.
C10_Witness ==
  /\ nPc = "done" /\ nLevel = "sequence_flows" /\ Len(nData) = 2 /\ Len(nOut) = 2
  /\ IsDict(nData[1]) /\ Get(nData[1], "flow_id") = StrV(sA001)
  /\ IsDict(nData[2]) /\ Get(nData[2], "flow_id") = StrV(FLOW \o N002)
  /\ nOut[1]["flow_id"] = StrV(FLOW \o N001)
  /\ nOut[2]["flow_id"] = StrV(FLOW \o N002)

\* C11: normalizing the batch a first normalization returned, with the same
\* context, returns that batch unchanged, record for record and field for field.
C11_Idempotent ==
  (nPc = "again" /\ nLevel \in SchemaLevels) => nOut = nData

\* the batch as the item loop of validate meets it: after back-fill and id assignment
Prepared(level, data, ctx) == EnsureIds(level, BackFill(level, data, ctx), ctx)

\* every required field of the kind is in the record or has a default
HasRequired(level, item) ==
  \A k \in 1..Len(GetSchema(level)) :
    GetSchema(level)[k].required =>
      Has(item, GetSchema(level)[k].name) \/ GetSchema(level)[k].hasDefault

\* the records of a prepared batch that are mappings with every required field
RECURSIVE KeptRecords(_, _)
KeptRecords(level, prepared) ==
  IF prepared = <<>> THEN <<>>
  ELSE (IF IsDict(Head(prepared)) /\ HasRequired(level, Head(prepared))
        THEN <<Head(prepared)>> ELSE <<>>) \o KeptRecords(level, Tail(prepared))

\* C12: for every raw batch of a kind with a schema, normalize raises no
\* exception and returns exactly the records that are mappings and, after
\* back-fill and id assignment, have every required field present or defaulted,
\* in input order (each with the fields it came with).
C12_PerRecordHandling ==
  (nLevel \in SchemaLevels /\ nPc \in {"done", "raised"}) =>
    /\ nPc # "raised"
    /\ LET kept == KeptRecords(nLevel, Prepared(nLevel, nData, nCtx))
       IN /\ Len(nOut) = Len(kept)
          /\ \A k \in 1..Len(kept) : DOMAIN kept[k] \subseteq DOMAIN nOut[k]

\* the kinds whose records refer to a process header
ReferringLevels == {"bpmn_elements", "sequence_flows", "pools", "lanes", "resources"}

\* the context holds a process header; its id
HoldsHeader(ctx) ==
  \/ ctx.pd.kind = "list" /\ Len(ctx.pd.items) > 0
  \/ ctx.pd.kind = "dict"
HeaderId(ctx) ==
  IF ctx.pd.kind = "list" THEN ctx.pd.items[1]["process_id"] ELSE ctx.pd.rec["process_id"]

\* a required field the rules provide when the record lacks it: the process
\* reference from the header, a lane's pool from the context's pool, and the
\* synthesized identifier of elements, flows, pools and lanes
Provided(level, f, ctx) ==
  \/ f = "process_id" /\ HoldsHeader(ctx)
  \/ f = "pool_id" /\ level = "lanes" /\ ctx.pool.kind = "dict"
  \/ f = IdField(level) /\ level # "resources"

\* a raw record the back-fill rule keeps
BackFillable(level, item, ctx) ==
  /\ IsDict(item)
  /\ \A k \in 1..Len(GetSchema(level)) :
       LET fs == GetSchema(level)[k]
       IN (fs.required /\ ~fs.hasDefault) =>
            Has(item, fs.name) \/ Provided(level, fs.name, ctx)

\* position in the output of the raw record at position i under that rule
BackFillIndex(i) ==
  Cardinality({k \in 1..i : BackFillable(nLevel, nData[k], nCtx)})

\* C13: for elements, flows, pools, lanes and resources, a record without
\* (non-empty) process_id, normalized with a context that holds a process
\* header, is in the output with the process_id of the (first) header; a lane
\* without pool_id gets the pool_id of the context's pool; a record with a
\* non-empty process_id keeps it.
C13_ContextBackFill ==
  (nPc = "done" /\ nLevel \in ReferringLevels) =>
    \A i \in 1..Len(nData) :
      BackFillable(nLevel, nData[i], nCtx) =>
        /\ BackFillIndex(i) \in 1..Len(nOut)
        /\ LET out == nOut[BackFillIndex(i)]
           IN /\ (MissingOrFalsy(nData[i], "process_id") /\ HoldsHeader(nCtx)) =>
                   out["process_id"] = HeaderId(nCtx)
              /\ (nLevel = "lanes" /\ MissingOrFalsy(nData[i], "pool_id")
                  /\ nCtx.pool.kind = "dict") =>
                   out["pool_id"] = nCtx.pool.rec["pool_id"]
              /\ ~MissingOrFalsy(nData[i], "process_id") =>
                   out["process_id"] = PyStr(nData[i]["process_id"])


\* a raw header that carries a creation_date and every required field
DatedRecord(item) ==
  /\ Complete("process_definitions", item, NoContext) /\ Has(item, "creation_date")

HasT(v) == Contains(v.s, <<"T">>)
HasColon(v) == Contains(v.s, <<":">>)

\* C15 (as stated): a date-time field is replaced by the sentinel exactly when
\* its value is a string with neither 'T' nor ':'; a string with at least one
\* of the two is unchanged; the record is in the output in every case.
C15_SentinelWhenLacksBoth ==
  (nPc = "done" /\ nLevel = "process_definitions") =>
    \A i \in 1..Len(nData) :
      DatedRecord(nData[i]) =>
        /\ OutIndex(i) \in 1..Len(nOut)
        /\ LET value == nData[i]["creation_date"]
               out == nOut[OutIndex(i)]["creation_date"]
           IN /\ (out = DefaultDateTime) <=>
                   (IsStr(value) /\ ~HasT(value) /\ ~HasColon(value))
              /\ (IsStr(value) /\ (HasT(value) \/ HasColon(value))) => out = value

\* C15 (amended): a date-time field is replaced by the sentinel exactly when
\* its value is a string that does not contain both 'T' and ':'; a string that
\* contains both is unchanged; a value that is not a string becomes its string
\* form; the record is in the output in every case.
C15_SentinelUnlessBoth ==
  (nPc = "done" /\ nLevel = "process_definitions") =>
    \A i \in 1..Len(nData) :
      DatedRecord(nData[i]) =>
        /\ OutIndex(i) \in 1..Len(nOut)
        /\ LET value == nData[i]["creation_date"]
               out == nOut[OutIndex(i)]["creation_date"]
           IN /\ (out = DefaultDateTime) <=>
                   (IsStr(value) /\ ~(HasT(value) /\ HasColon(value)))
              /\ (IsStr(value) /\ HasT(value) /\ HasColon(value)) => out = value
              /\ ~IsStr(value) => out = StrV(value.s)

\* C15 witness: a header whose creation_date "12:00" has a colon and no 'T' was
\* returned with the sentinel, behind a header whose date with time was kept.
C15_Witness ==
  /\ nPc = "done" /\ nLevel = "process_definitions" /\ Len(nData) = 2 /\ Len(nOut) = 2
  /\ nData[1] = DatedHeader(StrV(sDateTime)) /\ nData[2] = DatedHeader(StrV(sTimeOnly))
  /\ nOut[1]["creation_date"] = StrV(sDateTime)
  /\ nOut[2]["creation_date"] = DefaultDateTime

\* the identifier prefixes of all kinds
AllPrefixes == {PROC, FLOW, POOL, LANE, ELEM, START, END, EVEN, TASK, GATE}

\* a well-formed identifier: a string made of a kind prefix and an ordinal
WellFormedId(v) ==
  /\ IsStr(v)
  /\ \E p \in AllPrefixes :
       /\ StartsWith(v.s, p)
       /\ IsDigits(SubSeq(v.s, Len(p) + 1, Len(v.s)))

\* C16: every flow returned by the normalization of a flow batch has a
\* source_ref and a target_ref that are well-formed identifiers (a kind prefix
\* followed by an ordinal); a flow with an empty or malformed reference is not
\* in the output.
C16_FlowRefsWellFormed ==
  (nPc = "done" /\ nLevel = "sequence_flows") =>
    \A k \in 1..Len(nOut) :
      /\ Has(nOut[k], "source_ref") /\ WellFormedId(nOut[k]["source_ref"])
      /\ Has(nOut[k], "target_ref") /\ WellFormedId(nOut[k]["target_ref"])


(***************************************************************************)
(* Properties of BPMNGenerator.generate_from_context (checked under        *)
(* GenSpec)                                                                *)
(***************************************************************************)
\* the nodes and the connectors of the process container, in document order
IsConnector(n) == n.tag = "sequenceFlow"
IsNode(n) == n.tag # "sequenceFlow"
DocNodes == SelectSeq(process_node.children, IsNode)
DocConnectors == SelectSeq(process_node.children, IsConnector)
\* the shapes and the edges of the plane, in document order
IsShape(n) == n.tag = "bpmndi:BPMNShape"
IsEdge(n) == n.tag = "bpmndi:BPMNEdge"
DocShapes == SelectSeq(plane_node.children, IsShape)
DocEdges == SelectSeq(plane_node.children, IsEdge)
DocNodeIds == { DocNodes[k].attrs["id"] : k \in 1..Len(DocNodes) }

\* a call of generate_from_context is under way
Compiling == gPc \in {"process", "elements", "flows", "save"}

\* a flow with an empty endpoint or an endpoint that is no node of the document
Dangling(flow) ==
  \/ GetOrEmpty(flow, "source_ref").s = <<>>
  \/ GetOrEmpty(flow, "target_ref").s = <<>>
  \/ GetOrEmpty(flow, "source_ref") \notin DocNodeIds
  \/ GetOrEmpty(flow, "target_ref") \notin DocNodeIds
Resolved(flow) == ~Dangling(flow)

\* C17: in one compile (the first call on a generator), the connectors of the
\* document are exactly the flows of the batch whose two endpoints are nodes
\* compiled from the given elements, in batch order, each with one visual edge:
\* a dangling flow yields neither connector nor edge, wherever it stands in the
\* batch, and the compile runs to its end without error.
C17_DanglingFlowsSkipped ==
  /\ (Compiling /\ gCalls = 0) => ENABLED GenNext
  /\ (gPc = "saved" /\ gCalls = 1) =>
       LET kept == SelectSeq(CtxGet(gContext, "sequence_flows"), Resolved)
       IN /\ Len(DocConnectors) = Len(kept)
          /\ Len(DocEdges) = Len(kept)
          /\ \A k \in 1..Len(kept) :
               /\ DocConnectors[k].attrs["id"] = kept[k]["flow_id"]
               /\ DocConnectors[k].attrs["sourceRef"] = kept[k]["source_ref"]
               /\ DocConnectors[k].attrs["targetRef"] = kept[k]["target_ref"]
               /\ DocEdges[k].attrs["bpmnElement"] = kept[k]["flow_id"]

\* C17 witness: a first compile of two nodes whose batch holds a flow to an id
\* that no element has, followed by a flow between the two nodes: one connector.
C17_Witness ==
  /\ gPc = "saved" /\ gCalls = 1 /\ Len(DocNodes) = 2
  /\ Len(CtxGet(gContext, "sequence_flows")) = 2
  /\ gContext["sequence_flows"][1]["target_ref"] = StrV(sX1)
  /\ Resolved(gContext["sequence_flows"][2])
  /\ Len(DocConnectors) = 1
  /\ DocConnectors[1].attrs["id"] = gContext["sequence_flows"][2]["flow_id"]

\* the number of process containers of the document
ProcessContainers ==
  Cardinality({k \in 1..Len(definitions_node) : definitions_node[k] = "process"})

\* C18: every compile runs to its end; the document it writes has exactly one
\* process container and one plane, which refers to it; compiled from a context
\* with zero elements and zero flows (with or without a process header) the
\* container is empty: no node, no connector, no shape, no edge.
C18_OneProcessContainer ==
  /\ Compiling => ENABLED GenNext
  /\ gPc = "saved" =>
       /\ ProcessContainers = 1
       /\ diagram_node = <<"bpmndi:BPMNPlane">>
       /\ plane_node.attrs["bpmnElement"] = process_node.attrs["id"]
       /\ (NoList(gContext, "bpmn_elements") /\ NoList(gContext, "sequence_flows")) =>
            /\ process_node.children = <<>>
            /\ plane_node.children = <<>>

\* C18 witness: a context without header, elements and flows was compiled into
\* the empty default process.
C18_Witness ==
  /\ gPc = "saved" /\ "process_definitions" \notin DOMAIN gContext
  /\ CtxGet(gContext, "bpmn_elements") = <<>> /\ CtxGet(gContext, "sequence_flows") = <<>>
  /\ process_node.tag = "process" /\ process_node.children = <<>>
  /\ process_node.attrs["id"] = StrV(<<"P","r","o","c","e","s","s","_","1">>)
  /\ ProcessContainers = 1

\* C19: in every compiled document there is one shape per node and one edge
\* per connector, in the same order; each shape's bpmnElement is the id of its
\* node, each edge's bpmnElement the id of its connector, and the plane's
\* bpmnElement is the process id.
C19_VisualMirrorsProcess ==
  gPc = "saved" =>
    /\ Len(DocShapes) = Len(DocNodes)
    /\ Len(DocEdges) = Len(DocConnectors)
    /\ Len(plane_node.children) = Len(process_node.children)
    /\ \A k \in 1..Len(DocNodes) :
         DocShapes[k].attrs["bpmnElement"] = DocNodes[k].attrs["id"]
    /\ \A k \in 1..Len(DocConnectors) :
         DocEdges[k].attrs["bpmnElement"] = DocConnectors[k].attrs["id"]
    /\ plane_node.attrs["bpmnElement"] = process_node.attrs["id"]

\* C19 witness: a document with two nodes and two connectors and as many
\* shapes and edges.
C19_Witness ==
  /\ gPc = "saved" /\ Len(DocNodes) = 2 /\ Len(DocConnectors) = 2
  /\ Len(DocShapes) = 2 /\ Len(DocEdges) = 2
  /\ DocEdges[2].attrs["bpmnElement"] = StrV(FLOW \o N002)

\* the spellings of a task or gateway subtype the table names: the node kind
\* name and the hyphenated alias
TaskSpellings ==
  [userTask |-> {<<"u","s","e","r","T","a","s","k">>, <<"u","s","e","r">>},
   serviceTask |-> {<<"s","e","r","v","i","c","e","T","a","s","k">>, <<"s","e","r","v","i","c","e">>},
   scriptTask |-> {<<"s","c","r","i","p","t","T","a","s","k">>, <<"s","c","r","i","p","t">>},
   businessRuleTask |-> {<<"b","u","s","i","n","e","s","s","R","u","l","e","T","a","s","k">>,
                         <<"b","u","s","i","n","e","s","s","-","r","u","l","e">>},
   manualTask |-> {<<"m","a","n","u","a","l","T","a","s","k">>, <<"m","a","n","u","a","l">>},
   receiveTask |-> {<<"r","e","c","e","i","v","e","T","a","s","k">>, <<"r","e","c","e","i","v","e">>},
   sendTask |-> {<<"s","e","n","d","T","a","s","k">>, <<"s","e","n","d">>}]
GatewaySpellings ==
  [parallelGateway |-> {<<"p","a","r","a","l","l","e","l","G","a","t","e","w","a","y">>, <<"p","a","r","a","l","l","e","l">>},
   inclusiveGateway |-> {<<"i","n","c","l","u","s","i","v","e","G","a","t","e","w","a","y">>,
                         <<"i","n","c","l","u","s","i","v","e">>},
   eventBasedGateway |-> {<<"e","v","e","n","t","B","a","s","e","d","G","a","t","e","w","a","y">>,
                          <<"e","v","e","n","t","-","b","a","s","e","d">>},
   complexGateway |-> {<<"c","o","m","p","l","e","x","G","a","t","e","w","a","y">>, <<"c","o","m","p","l","e","x">>}]
\* the bare camel-case names, which the table leaves open
OpenSpellings == {<<"b","u","s","i","n","e","s","s","R","u","l","e">>, <<"e","v","e","n","t","B","a","s","e","d">>}

\* the node kinds the precedence table allows for (type, subtype)
TableKinds(type, subtype) ==
  CASE type = sEvent ->
         IF Contains(subtype, <<"s","t","a","r","t">>) THEN {"startEvent"}
         ELSE IF Contains(subtype, <<"e","n","d">>) THEN {"endEvent"}
         ELSE IF Contains(subtype, <<"C","a","t","c","h">>) THEN {"intermediateCatchEvent"}
         ELSE {"intermediateThrowEvent"}
    [] type = sTask ->
         IF \E kind \in DOMAIN TaskSpellings : subtype \in TaskSpellings[kind]
         THEN {kind \in DOMAIN TaskSpellings : subtype \in TaskSpellings[kind]}
         ELSE IF subtype \in OpenSpellings THEN {"task", "businessRuleTask"}
         ELSE {"task"}
    [] OTHER ->
         IF \E kind \in DOMAIN GatewaySpellings : subtype \in GatewaySpellings[kind]
         THEN {kind \in DOMAIN GatewaySpellings : subtype \in GatewaySpellings[kind]}
         ELSE IF subtype \in OpenSpellings THEN {"exclusiveGateway", "eventBasedGateway"}
         ELSE {"exclusiveGateway"}

\* an element of one of the three types of the table
Typed(element) == element["element_type"].s \in {sEvent, sTask, sGateway}

\* C20: every event, task and gateway of the compiled context has a node of the
\* kind the precedence table gives for its (type, subtype): start-event for an
\* event whose subtype contains "start", end-event for one containing "end",
\* intermediate catch-event for one containing "Catch", intermediate
\* throw-event otherwise; the specialized task or gateway node for a named
\* subtype, the plain task / exclusive gateway otherwise.
C20_NodeKindByTable ==
  gPc = "saved" =>
    LET typed == SelectSeq(CtxGet(gContext, "bpmn_elements"), Typed)
    IN /\ Len(DocNodes) = Len(typed)
       /\ \A k \in 1..Len(typed) :
            DocNodes[k].tag \in TableKinds(typed[k]["element_type"].s,
                                           GetOrEmpty(typed[k], "element_subtype").s)

\* the elements of the compiled context that the normalizer accepts
Accepted(element) == Len(Validate("bpmn_elements", <<element>>, NoContext)) = 1
AcceptedElements == SelectSeq(CtxGet(gContext, "bpmn_elements"), Accepted)

\* C21: the document of a compile (the first call on a generator) holds
\* exactly one node and one shape for each element record of the context that
\* the normalizer accepts, whatever its type string, in the order of the
\* records and with the record's id, and exactly one connector for each flow
\* whose two endpoints resolved.
C21_NodePerAcceptedElement ==
  (gPc = "saved" /\ gCalls = 1) =>
    /\ Len(DocNodes) = Len(AcceptedElements)
    /\ Len(DocShapes) = Len(AcceptedElements)
    /\ \A k \in 1..Len(AcceptedElements) :
         /\ k <= Len(DocNodes) /\ DocNodes[k].attrs["id"] = AcceptedElements[k]["element_id"]
         /\ k <= Len(DocShapes)
         /\ DocShapes[k].attrs["bpmnElement"] = AcceptedElements[k]["element_id"]
    /\ Len(DocConnectors) =
         Len(SelectSeq(CtxGet(gContext, "sequence_flows"), Resolved))

\* C28: after any sequence of calls on one generator, every connector of the
\* document the latest call produced has a sourceRef and a targetRef that are
\* ids of nodes of that same document; elements compiled by an earlier call
\* make no flow of a later call resolvable.
C28_ConnectorsResolveInDocument ==
  gPc = "saved" =>
    \A k \in 1..Len(DocConnectors) :
      /\ DocConnectors[k].attrs["sourceRef"] \in DocNodeIds
      /\ DocConnectors[k].attrs["targetRef"] \in DocNodeIds

(***************************************************************************)
(* Properties of DataGenerationPipeline.run (checked under Spec)           *)
(***************************************************************************)
HardStages == {"phases", "process_definitions", "elements", "flows"}
SoftStages == {"pools", "resources", "integrity"}
Running == pc \notin {"constructed", "returned", "raised"}
StartedSet == {started[k] : k \in 1..Len(started)}
\* the context key that holds the batch of a hard stage
KeyOf(stage) ==
  CASE stage = "phases" -> "process_phases"
    [] stage = "process_definitions" -> "process_definitions"
    [] stage = "elements" -> "bpmn_elements"
    [] OTHER -> "sequence_flows"
\* position of a stage in the fixed order
StageIndex(stage) == CHOOSE k \in 1..Len(Stages) : Stages[k] = stage
SummaryWritten == "success" \in DOMAIN summary

\* C1: with a non-empty description, whichever stage raises, run() does not
\* raise and never stops before the finalize step; when it has returned, the
\* context document, the timing document (with a 'total' entry) and the summary
\* document have been written.
C1_RaiseReachesFinalize ==
  /\ Truthy(product_description) => pc # "raised"
  /\ (Running /\ raised # {}) => ENABLED Next
  /\ (pc = "returned" /\ raised # {}) =>
       /\ {"complete_context.json", "performance_metrics.json",
           "generation_summary.json"} \subseteq files
       /\ "total" \in timings
       /\ SummaryWritten

\* C1 witness: a run returned after a soft and a hard stage had raised.
C1_Witness ==
  /\ pc = "returned" /\ "pools" \in raised /\ "flows" \in raised
  /\ "generation_summary.json" \in files

\* C2 (as stated): no invocation of run() ends with an exception raised to the
\* caller, whatever the product description.
C2_RunNeverRaises == pc # "raised"

\* the outcome of a run: no hard stage raised and each hard stage left a batch
GoodOutcome ==
  /\ raised \cap HardStages = {}
  /\ \A h \in HardStages : CtxGet(context, KeyOf(h)) # <<>>

\* C2 (amended): run() on a pipeline with a non-empty description returns with
\* the context and summary documents written, the success flag reporting the
\* outcome; run() on a pipeline without description raises before any stage
\* and writes no document.
C2_CompletesUnlessNoDescription ==
  /\ pc = "returned" =>
       /\ Truthy(product_description)
       /\ {"complete_context.json", "generation_summary.json"} \subseteq files
       /\ SummaryWritten
       /\ summary.success = GoodOutcome
  /\ pc = "raised" =>
       /\ ~Truthy(product_description)
       /\ started = <<>> /\ files = {} /\ ~SummaryWritten

\* C2 witness: run() on a pipeline without description has raised.
C2_Witness == pc = "raised" /\ product_description = NoneV /\ files = {}

\* C3: stages start at most once each, in the fixed order; a stage starts only
\* if every required stage before it ran without raising and left a non-empty
\* batch; when the elements stage yields no record, pools/lanes, flows and
\* resources do not start and the summary has elements_count 0.
C3_OrderedGatedStages ==
  /\ \A j, k \in 1..Len(started) :
       j < k => StageIndex(started[j]) < StageIndex(started[k])
  /\ \A k \in 1..Len(started) : \A h \in HardStages :
       StageIndex(h) < StageIndex(started[k]) =>
         /\ h \in StartedSet
         /\ h \notin raised
         /\ CtxGet(context, KeyOf(h)) # <<>>
  /\ ("elements" \in StartedSet /\ pc \notin {"elements"}
      /\ CtxGet(context, "bpmn_elements") = <<>>) =>
       /\ StartedSet \cap {"pools", "flows", "resources", "integrity"} = {}
       /\ pc \in {"pools", "flows", "resources", "integrity", "finalize", "returned"}
       /\ (pc = "returned" => SummaryWritten /\ summary.elements_count = 0)

\* C3 witness: a run returned whose elements stage ran without raising and
\* yielded no record.
C3_Witness ==
  /\ pc = "returned" /\ started = <<"phases", "process_definitions", "elements">>
  /\ raised = {} /\ summary.elements_count = 0 /\ ~summary.success

\* a step in which a soft stage raises
SoftRaiseStep == raised' # raised /\ StageOf(pc) \in SoftStages

\* C4: a soft stage that raises changes neither flag of the run and hands over
\* to the next step: after pools/lanes raised, flows is started; after
\* resources raised, the integrity audit is started; after the audit raised,
\* the run finalizes; the summary's success flag is the one of a run whose
\* soft stages succeeded.
C4_SoftFailureContained ==
  /\ [][SoftRaiseStep =>
          /\ success' = success /\ data_generated' = data_generated
          /\ pc' = NextPc(StageOf(pc))]_vars
  /\ [](/\ ("pools" \in raised /\ pc \notin {"flows"}) => "flows" \in StartedSet
        /\ ("resources" \in raised /\ pc \notin {"integrity"}) => "integrity" \in StartedSet
        /\ "integrity" \in raised => pc \in {"finalize", "returned"}
        /\ (pc = "returned" /\ raised \subseteq SoftStages) =>
              summary.success = (\A h \in HardStages : CtxGet(context, KeyOf(h)) # <<>>))

\* C4 witness: all three soft stages raised and the run returned successful.
C4_Witness ==
  /\ pc = "returned" /\ raised = {"pools", "resources", "integrity"}
  /\ summary.success /\ "flows" \in StartedSet /\ "integrity" \in StartedSet

\* C5 (as stated): once the elements stage has produced an element and
\* resources are requested, the resources stage is executed, also in a run
\* whose flows stage raised or produced no valid flow.
C5_ResourcesIndependentOfFlows ==
  (/\ pc \in {"integrity", "finalize", "returned"}
   /\ raised \cap {"phases", "process_definitions", "elements"} = {}
   /\ CtxGet(context, "bpmn_elements") # <<>>
   /\ batch_sizes.resources > 0) => "resources" \in StartedSet

\* C5 (amended): the resources stage is executed exactly when no hard stage
\* (phases, process header, elements, flows) raised, each of them left a
\* non-empty batch and the requested resource count is positive; after a flows
\* stage that raised or produced no valid flow it is not executed.
C5_ResourcesGatedByFlows ==
  pc \in {"integrity", "finalize", "returned"} =>
    ("resources" \in StartedSet <=>
       /\ raised \cap HardStages = {}
       /\ \A h \in HardStages : CtxGet(context, KeyOf(h)) # <<>>
       /\ batch_sizes.resources > 0)

\* C5 witness: the flows stage produced no valid flow, elements exist,
\* resources are requested, and the resources stage was passed over.
C5_Witness ==
  /\ pc = "returned" /\ raised = {} /\ "flows" \in StartedSet
  /\ CtxGet(context, "bpmn_elements") # <<>> /\ CtxGet(context, "sequence_flows") = <<>>
  /\ batch_sizes.resources > 0 /\ "resources" \notin StartedSet

\* the identifiers of a batch are pairwise distinct
DistinctIds(batch, f) ==
  \A j, k \in 1..Len(batch) : j # k => batch[j][f] # batch[k][f]

\* C8: when a run finalizes, within each kind stored in the context (elements,
\* pools, lanes, flows, resources) no two records share an identifier.
C8_UniqueIdsAtFinalize ==
  pc = "returned" =>
    /\ DistinctIds(CtxGet(context, "bpmn_elements"), "element_id")
    /\ DistinctIds(CtxGet(context, "pools"), "pool_id")
    /\ DistinctIds(CtxGet(context, "lanes"), "lane_id")
    /\ DistinctIds(CtxGet(context, "sequence_flows"), "flow_id")
    /\ DistinctIds(CtxGet(context, "resources"), "resource_id")

\* the kinds of the context whose records refer to a process header
ReferringKeys == {"bpmn_elements", "sequence_flows", "pools", "lanes", "resources"}

\* the process ids of the headers stored in a context
HeaderIds(c) ==
  { CtxGet(c, "process_definitions")[k]["process_id"] :
      k \in 1..Len(CtxGet(c, "process_definitions")) }

\* C14: when a run finalizes, every element, flow, pool, lane and resource of
\* the context carries the process_id of a process header of the same context.
C14_ProcessIdResolves ==
  pc = "returned" =>
    \A key \in ReferringKeys : \A k \in 1..Len(CtxGet(context, key)) :
      /\ Has(CtxGet(context, key)[k], "process_id")
      /\ CtxGet(context, key)[k]["process_id"] \in HeaderIds(context)


\* C26: element generation terminates: it issues at most max_element_batches
\* generation requests, and another request follows a batch only if that batch
\* returned at least batch-size records, at least one of them valid, and the
\* accepted elements are still fewer than batch size x max batches.
C26_ElementLoopTerminates ==
  /\ batch_num <= batch_sizes.max_element_batches
  /\ pc = "elements" => ENABLED Next
  /\ (pc = "elements" /\ batch_num > 0) =>
       /\ batch_num < batch_sizes.max_element_batches
       /\ batch_reply.elements # <<>>
       /\ batch_reply.valid_elements # <<>>
       /\ Len(batch_reply.elements) >= batch_sizes.elements
       /\ Len(all_elements) < batch_sizes.elements * batch_sizes.max_element_batches

\* C26 witness: the loop was left after one batch that held fewer valid records
\* than requested, although a second batch was allowed.
C26_Witness ==
  /\ pc = "pools" /\ batch_num = 1 /\ batch_sizes.max_element_batches > 1
  /\ all_elements # <<>> /\ Len(all_elements) < batch_sizes.elements

\* C30: the number of elements accumulated in the context by the elements
\* stage never exceeds batch size x max batches, whatever number of records
\* each batch returns.
C30_ElementCountCapped ==
  Len(CtxGet(context, "bpmn_elements")) <=
    batch_sizes.elements * batch_sizes.max_element_batches

\* the keys of the context that hold a list of records
ListKeys ==
  {"process_phases", "process_definitions", "bpmn_elements", "allElementRows", "pools",
   "lanes", "sequence_flows", "allFlowRows", "resources", "integrity_issues"}

\* list a is an initial part of list b
IsPrefix(a, b) == Len(a) <= Len(b) /\ SubSeq(b, 1, Len(a)) = a

\* C27: during one run (of a freshly constructed pipeline) the context is
\* append-only: every step keeps every key of the context, and keeps the
\* records stored under it, with the same field values and in the same order,
\* as an initial part of what is stored afterwards.
C27_ContextAppendOnly ==
  [][\A k \in DOMAIN context :
       /\ k \in DOMAIN context'
       /\ IF k \in ListKeys THEN IsPrefix(context[k], context'[k])
          ELSE context'[k] = context[k]]_vars

\* C27 witness: two element batches, pools, lanes and flows were stored in turn.
C27_Witness ==
  /\ pc = "resources" /\ batch_num = 2 /\ Len(CtxGet(context, "bpmn_elements")) >= 2
  /\ CtxGet(context, "pools") # <<>> /\ CtxGet(context, "lanes") # <<>>
  /\ CtxGet(context, "sequence_flows") # <<>>

\* C29: in a run of a freshly constructed pipeline the success flag of the
\* summary is true if and only if none of the hard stages (phases, process
\* header, elements, flows) raised and each of process_phases,
\* process_definitions, bpmn_elements and sequence_flows is non-empty in the
\* context at finalize.
C29_SuccessIffHardStagesDelivered ==
  SummaryWritten =>
    (summary.success <=>
       /\ \A h \in HardStages : h \notin raised
       /\ \A k \in {"process_phases", "process_definitions", "bpmn_elements",
                    "sequence_flows"} : k \in DOMAIN context /\ context[k] # <<>>)

\* C29 witness: a run whose pools-and-lanes stage raised returned with a true
\* success flag and the four batches stored.
C29_Witness ==
  /\ pc = "returned" /\ SummaryWritten /\ summary.success /\ "pools" \in raised
  /\ summary.flows_count > 0 /\ summary.phases_count > 0

(***************************************************************************)
(* Properties of call_llm, send_prompt and check_integrity (checked under  *)
(* LlmSpec)                                                                *)
(***************************************************************************)
CallReturned == lPc \in {"returned", "checked"}
\* the text call_llm parses for a reply: the "message" string of a container
\* or the reply itself, cleaned
ParsedText(outcome) == CleanJsonText(UnwrapMessage(outcome.v).s)
IsText(outcome) == outcome.kind = "text" /\ IsStr(outcome.v) /\ outcome.v.s # <<>>
\* a reply whose text does not parse as JSON
Unparseable(outcome) == IsText(outcome) /\ ~JsonLoads(ParsedText(outcome)).ok
\* the list or record a reply parses to, None when there is none
DirectRows(outcome) ==
  IF IsText(outcome) /\ JsonLoads(ParsedText(outcome)).ok
     /\ JsonLoads(ParsedText(outcome)).v.t \in {"list", "dict"}
  THEN JsonLoads(ParsedText(outcome)).v
  ELSE NoneV
\* the list or record got from the k-th reply: what it parses to or, for the
\* second reply when it does not parse, the non-empty content extracted from it
RowsOf(replies, k) ==
  IF DirectRows(replies[k]) # NoneV THEN DirectRows(replies[k])
  ELSE IF k = 2 /\ Unparseable(replies[k])
          /\ ~Falsy(ExtractJsonContent(ParsedText(replies[k])))
       THEN ExtractJsonContent(ParsedText(replies[k]))
  ELSE NoneV
FirstRows(replies) ==
  IF \E k \in 1..Len(replies) : RowsOf(replies, k) # NoneV
  THEN RowsOf(replies, CHOOSE k \in 1..Len(replies) :
                         /\ RowsOf(replies, k) # NoneV
                         /\ \A j \in 1..(k - 1) : RowsOf(replies, j) = NoneV)
  ELSE JList(<<>>)

\* C22: whatever the collaborator does (exception, empty reply, unparseable
\* reply, a value that is neither list nor record, valid reply), call_llm
\* invokes send_prompt at most twice and has no way out but to return; what
\* it returns is a list or a record, namely the first list or record got from a
\* reply (parsed from it, or extracted from the second reply when that does
\* not parse) and the empty list when no reply gives one.  An invocation of
\* send_prompt makes at most two requests, raises when both failed and never
\* leaves its loop without returning or raising.
C22_CallLlmBounded ==
  /\ Len(lSent) <= 2
  /\ Len(lReplies) <= Len(lSent)
  /\ lHttp <= 2
  /\ (lPc = "reply" /\ lApiRetry >= 2) => lText = Raised
  /\ lPc = "send" => lApiRetry < 2 /\ lHttp < 2
  /\ CallReturned =>
       /\ IsJList(lRows) \/ IsJDict(lRows)
       /\ lRows = FirstRows(lReplies)

\* C22 witness: send_prompt raised after two failed requests, call_llm invoked
\* it again and returned the list of the second reply.
C22_Witness ==
  /\ lPc = "returned" /\ Len(lSent) = 2 /\ lReplies[1] = Raised
  /\ lReplies[2] = Returned(StrV(tFenced))
  /\ lRows = JList(<<[t |-> "int", s |-> <<"1">>]>>)

\* C23: in every execution of call_llm a reply that does not parse is followed
\* by one more request, the repair request that embeds the cleaned text of that
\* reply, and _extract_json_content is applied only to a reply to a repair
\* request, never to a reply to a request that is not one.
C23_ExtractionOnlyAfterRepair ==
  /\ \A k \in lExtracted : lSent[k].fix
  /\ \A k \in 1..Len(lReplies) :
       (Unparseable(lReplies[k]) /\ ~lSent[k].fix /\ (CallReturned \/ k < Len(lReplies)))
         => /\ Len(lSent) = k + 1
            /\ lSent[k + 1] = FixPrompt(ParsedText(lReplies[k]))

\* a record with a problem_type, a description, the involved element
\* identifiers and a severity that is high, medium or low
SEVERITIES == {<<"h", "i", "g", "h">>, <<"m", "e", "d", "i", "u", "m">>, <<"l", "o", "w">>}
IsIssueRecord(r) ==
  /\ IsJDict(r)
  /\ IsStr(JGet(r, <<"p", "r", "o", "b", "l", "e", "m", "_", "t", "y", "p", "e">>))
  /\ IsStr(JGet(r, <<"d", "e", "s", "c", "r", "i", "p", "t", "i", "o", "n">>))
  /\ IsJList(JGet(r, <<"e", "l", "e", "m", "e", "n", "t", "s">>))
  /\ IsStr(JGet(r, <<"s", "e", "v", "e", "r", "i", "t", "y">>))
  /\ JGet(r, <<"s", "e", "v", "e", "r", "i", "t", "y">>).s \in SEVERITIES

\* C24: when the collaborator's reply parses as a sequence, check_integrity
\* returns that sequence in its order and every record of it has a
\* problem_type, a description, the involved element identifiers and a
\* severity that is one of high, medium, low; when the reply does not parse as
\* a sequence, it returns the reply unchanged.
C24_IssuesOrReplyUnchanged ==
  (lPc = "checked" /\ lText.kind = "text") =>
    IF IsJList(DirectRows(lText))
    THEN /\ lIssues = DirectRows(lText)
         /\ \A i \in 1..Len(lIssues.items) : IsIssueRecord(lIssues.items[i])
    ELSE lIssues = lText.v

(***************************************************************************)
(* Properties of two pipeline runs side by side (checked under RunsSpec)   *)
(***************************************************************************)
Constructed(p) == pipelines[p].pc # "new"

\* C25: two pipeline runs for different product descriptions, constructed and
\* run in any interleaving (also within one clock second, also from one
\* options record), share no mutable state: their options records and output
\* directories are different objects, the options record of a run holds and
\* shows that run's description and not the other's, its context holds its own
\* data, and every document in its output directory is the one it wrote.
C25_RunsShareNothing ==
  \A p \in PipelineIds : Constructed(p) =>
    /\ \A q \in PipelineIds \ {p} : Constructed(q) =>
         /\ pipelines[q].api_options # pipelines[p].api_options
         /\ pipelines[q].output_dir # pipelines[p].output_dir
    /\ option_records[pipelines[p].api_options] = DescriptionOf(p)
    /\ pipelines[p].options_read \in {NoneV, DescriptionOf(p)}
    /\ pipelines[p].context \in {<<>>, <<DescriptionOf(p)>>}
    /\ \A f \in RunFiles :
         documents[pipelines[p].output_dir][f] \in {NoFile, DescriptionOf(p)}

====
